---- MODULE Spec2Model ----
(***************************************************************************)
(* Verification model of the leaf-disease CBIR engine:                     *)
(*   database/chroma.py      store access, calculate_similarity,          *)
(*                           analyze_query_results                        *)
(*   evaluation_system.py    CBIREvaluationSystem                         *)
(*   engine/processing_engine.py, cbir.py   process_image and its callers *)
(*                                                                         *)
(* Numbers.  The Python code works on floats; the model works on exact     *)
(* scaled integers:                                                        *)
(*   distances            in hundredths        (cosine distance 0.37 = 37) *)
(*   disease coverage     in thousandths       (0.02 = 20, 0.05 = 50)      *)
(*   similarities,        in tenths of a       (5.0 = 50, 95.0 = 950)      *)
(*   confidences,         percent                                          *)
(*   percentages                                                           *)
(*   risk scores          in tenths            (0.4 = 4)                   *)
(* round(x, 1) is Python's round-half-to-even, applied to the exact value. *)
(***************************************************************************)
EXTENDS Integers, Sequences, FiniteSets, TLC

VARIABLES
    sim_args,        \* arguments of the pending calculate_similarity call
    sim_ret,         \* <<>> while the call is pending, then <<return value>>
    an_in,           \* the query vector and the store's answer to the query
    query_results,   \* <<>>, then <<what query_embedding returned>>
    analysis,        \* <<>>, then <<what analyze_query_results returned>>
    risk_arg,        \* the ClassificationResult handed to predict_revocation_risk
    prediction,      \* <<>>, then <<what predict_revocation_risk returned>>
    collection,      \* the stored signatures of "leaf_diseases", in insertion order
    handle_stale,    \* the process's collection handle names a deleted collection
    pc,              \* "idle", or the loop main() is in: "process", "evaluate"
    last_run,        \* the mode of the latest run of main()
    todo,            \* the image files the running loop has still to visit
    dataset_stats,   \* process_dataset: images counted processed / errors
    test_results,    \* evaluate_system_performance: the records so far
    store_before,    \* the store when evaluate_system_performance started
    runs,            \* number of runs of main() so far
    corpus,          \* the image files of the directory the running loop walks
    log,             \* per image visited in this run: the file, whether the
                     \* store worked for it, and how the loop body ended
    query_ret,       \* <<>>, then <<what process_query_image returned>>
    fx_in,           \* the image handed to extract_disease_features
    fx_out           \* <<>>, then <<what extract_disease_features did>>

\* a call result cell: empty until the call has returned
Pending == <<>>
Returned(cell) == cell # Pending
Val(cell) == cell[1]

----------------------------------------------------------------------------
(* Arithmetic helpers                                                      *)

Abs(x) == IF x < 0 THEN -x ELSE x
Max(a, b) == IF a >= b THEN a ELSE b
Min(a, b) == IF a <= b THEN a ELSE b

\* round(n/d) for n >= 0, d > 0, ties to the even neighbour (Python round)
RoundHalfEven(n, d) ==
    LET q == n \div d
        r == n % d
    IN  IF 2 * r < d THEN q
        ELSE IF 2 * r > d THEN q + 1
        ELSE IF q % 2 = 0 THEN q ELSE q + 1

----------------------------------------------------------------------------
(* Feature vectors.  Of the 128 values only the head of the shape block   *)
(* [120,128) decides anything in the similarity engine, the classifier and *)
(* the risk predictor, so an embedding is modelled as emb[120..123]:       *)
(*   emb[120] lesion count, emb[121] average lesion size (pixels),         *)
(*   emb[122] lesion size std, emb[123] disease coverage (thousandths).    *)
(* Python index 120 + k is index k + 1 of the modelled sequence.           *)

Emb(n, s, c) == <<n, s, 0, c>>

\* shape1[0] and shape1[3] of calculate_similarity
num_lesoes(emb) == emb[1]
area_afetada(emb) == emb[4]

\* is_healthy1 / is_healthy2
is_healthy(emb) == num_lesoes(emb) <= 1 /\ area_afetada(emb) < 20

\* has_significant_lesions1 / has_significant_lesions2
has_significant_lesions_and(emb) == num_lesoes(emb) >= 3 /\ area_afetada(emb) > 50
has_significant_lesions(emb) == num_lesoes(emb) >= 3 \/ area_afetada(emb) > 50

\* penalty for the difference in lesion count, in tenths
lesion_penalty_from_zero(lesion_diff) ==
    IF lesion_diff <= 2 THEN 9
    ELSE IF lesion_diff <= 4 THEN 8
    ELSE IF lesion_diff <= 6 THEN 7
    ELSE 6
lesion_penalty(lesion_diff) ==
    IF lesion_diff > 0
    THEN IF lesion_diff <= 2 THEN 9
         ELSE IF lesion_diff <= 4 THEN 8
         ELSE IF lesion_diff <= 6 THEN 7
         ELSE 6
    ELSE 10

\* penalty for the difference in coverage, in hundredths
area_penalty(area_diff) ==
    IF area_diff > 0
    THEN IF area_diff <= 50 THEN 95
         ELSE IF area_diff <= 100 THEN 85
         ELSE IF area_diff <= 150 THEN 75
         ELSE 65
    ELSE 100

\* bonus for very similar leaves, in tenths
small_diff_bonus(lesion_diff, area_diff) ==
    IF lesion_diff <= 2 /\ area_diff <= 50 THEN 12 ELSE 10

\* the blend weights (base, lesion, area), in tenths
blend_weights(emb1, emb2) ==
    IF is_healthy(emb1) /\ is_healthy(emb2) THEN <<4, 3, 3>>
    ELSE IF has_significant_lesions(emb1) /\ has_significant_lesions(emb2)
         THEN <<2, 5, 3>>
         ELSE <<3, 4, 3>>

\* final_similarity = min(95, final_similarity), on the numerator of x/den
cap_at_75(x, den) == Min(75 * den, x)
cap_no_cap(x, den) == Min(100 * den, x)
cap_similarity(x, den) == Min(95 * den, x)

\* calculate_similarity from the blend on, given the two penalties (in
\* tenths and in hundredths), result in tenths of a percent.
\* Every intermediate value is kept as an exact fraction:
\*   lesion_similarity = lesNum / lesDen,  area_similarity = areaNum / 2,
\*   blended value     = blendNum / q      with q = 20 * lesDen,
\*   after penalties and bonus: adjNum / den with den = 10000 * q.
penalised_similarity(dist, emb1, emb2, lesion_pen, area_pen) ==
    LET num_lesoes1 == num_lesoes(emb1)
        num_lesoes2 == num_lesoes(emb2)
        area_afetada1 == area_afetada(emb1)
        area_afetada2 == area_afetada(emb2)
        both_diseased == has_significant_lesions(emb1) /\ has_significant_lesions(emb2)
        base_similarity == 100 - dist
        lesion_diff == Abs(num_lesoes1 - num_lesoes2)
        max_lesoes == Max(num_lesoes1, num_lesoes2)
        lesDen == IF max_lesoes > 0 THEN max_lesoes + 2 ELSE 1
        lesNum == IF max_lesoes > 0
                  THEN 100 * (max_lesoes + 2 - lesion_diff)
                  ELSE IF lesion_diff = 0 THEN 100 ELSE 0
        area_diff == Abs(area_afetada1 - area_afetada2)
        areaNum == 200 - Min(200, area_diff)
        w == blend_weights(emb1, emb2)
        q == 20 * lesDen
        blendNum == w[1] * base_similarity * 2 * lesDen
                    + w[2] * lesNum * 2
                    + w[3] * areaNum * lesDen
        clamped == Max(0, Min(100 * q, blendNum))
        den == 10000 * q
        adjNum == clamped * lesion_pen * area_pen
                          * small_diff_bonus(lesion_diff, area_diff)
        bonused == IF small_diff_bonus(lesion_diff, area_diff) = 12
                   THEN Min(100 * den, adjNum) ELSE adjNum
        floored == IF both_diseased THEN Max(30 * den, bonused) ELSE bonused
        capped == cap_similarity(floored, den)
    IN  IF (is_healthy(emb1) /\ has_significant_lesions(emb2))
           \/ (is_healthy(emb2) /\ has_significant_lesions(emb1))
        THEN 50
        ELSE RoundHalfEven(10 * capped, den)

\* calculate_similarity(dist, emb1, emb2), result in tenths of a percent
calculate_similarity(dist, emb1, emb2) ==
    penalised_similarity(dist, emb1, emb2,
                         lesion_penalty(Abs(num_lesoes(emb1) - num_lesoes(emb2))),
                         area_penalty(Abs(area_afetada(emb1) - area_afetada(emb2))))

----------------------------------------------------------------------------
(* Sequences helpers                                                       *)

Range(s) == {s[i] : i \in 1..Len(s)}
Front(s) == SubSeq(s, 1, Len(s) - 1)
Last(s) == s[Len(s)]

\* s[:n]
Take(s, n) == SubSeq(s, 1, Min(n, Len(s)))

RECURSIVE SumSeq(_)
SumSeq(s) == IF s = <<>> THEN 0 ELSE s[1] + SumSeq(Tail(s))

RECURSIVE MaxSeq(_)
MaxSeq(s) == IF Len(s) = 1 THEN s[1] ELSE Max(s[1], MaxSeq(Tail(s)))

RECURSIVE MinSeq(_)
MinSeq(s) == IF Len(s) = 1 THEN s[1] ELSE Min(s[1], MinSeq(Tail(s)))

\* the distinct values of s in order of first appearance (dict key order)
RECURSIVE KeyOrder(_)
KeyOrder(s) ==
    IF s = <<>> THEN <<>>
    ELSE LET f == KeyOrder(Front(s))
         IN  IF Last(s) \in Range(f) THEN f ELSE Append(f, Last(s))

----------------------------------------------------------------------------
(* Metadata and the value None                                             *)

None == [tag |-> "None"]

\* an exception that leaves the function (not caught inside it)
Raised(exc) == [tag |-> "raised", exc |-> exc]
IsRaised(v) == "exc" \in DOMAIN v

\* category names whose lower-cased text contains "healthy"
HealthyNames == {"leaf_healthy", "Healthy_leaf"}
ContainsHealthy(category) == category \in HealthyNames

Meta(path, category, type) == [path |-> path, category |-> category, type |-> type]

\* meta.get('category', 'unknown')
get_category(meta) == IF "category" \in DOMAIN meta THEN meta.category ELSE "unknown"

\* extract_features(embedding): the named view of the shape block
extract_features(embedding) ==
    [shape |-> [num_lesions |-> embedding[1],
                avg_lesion_size |-> embedding[2],
                lesion_size_std |-> embedding[3],
                disease_coverage |-> embedding[4]]]

----------------------------------------------------------------------------
(* query_embedding                                                         *)

\* has_lesions = num_lesoes > 0 and area_afetada > 0.001
query_has_lesions(query_emb) == num_lesoes(query_emb) > 0 /\ area_afetada(query_emb) > 1

\* what collection.query did: raised, or returned a distance-ordered list of
\* matches [id, distance, embedding, metadata]
StoreRaised == [raised |-> TRUE]
StoreAnswer(matches) == [raised |-> FALSE, matches |-> matches]

\* query_embedding(query_embedding, n_results, metadata), given the outcome
\* of collection.query.  The query's metadata is inserted at the head of
\* the metadata list only; an exception gives (None, False).
query_embedding(query_emb, metadata, answer) ==
    IF answer.raised
    THEN <<None, FALSE>>
    ELSE LET m == answer.matches
         IN  <<[ids |-> [i \in 1..Len(m) |-> m[i].id],
                distances |-> [i \in 1..Len(m) |-> m[i].distance],
                embeddings |-> [i \in 1..Len(m) |-> m[i].embedding],
                metadatas |-> <<metadata>> \o [i \in 1..Len(m) |-> m[i].metadata]],
               query_has_lesions(query_emb)>>

----------------------------------------------------------------------------
(* analyze_query_results                                                   *)

min_similarity == 400
TopN == 5
MajorityCount == 3

\* the category shown for a candidate
normalize_category(category) ==
    IF ContainsHealthy(category) THEN "leaf_healthy"
    ELSE IF category # "query" THEN "leaf_with_disease"
    ELSE "query"

\* the loop over zip(distances[1:], embeddings[1:], metadatas[1:]): one
\* comparison per position i (Python index i, model index i + 1) whose
\* metadata is not an analysis artifact
compared_positions(res) ==
    LET n == Min(Len(res.distances), Min(Len(res.embeddings), Len(res.metadatas))) - 1
        RECURSIVE walk(_)
        walk(i) ==
            IF i > n THEN <<>>
            ELSE IF res.metadatas[i + 1].type = "leaf_disease_analysis"
                 THEN walk(i + 1)
                 ELSE <<i>> \o walk(i + 1)
    IN  walk(1)

\* detailed_comparisons (with similarities folded in)
detailed_comparisons(res) ==
    LET query_emb == res.embeddings[1]
        pos == compared_positions(res)
    IN  [k \in 1..Len(pos) |->
            [index |-> pos[k],
             category |-> normalize_category(get_category(res.metadatas[pos[k] + 1])),
             path |-> res.metadatas[pos[k] + 1].path,
             similarity |-> calculate_similarity(res.distances[pos[k] + 1],
                                                 query_emb,
                                                 res.embeddings[pos[k] + 1])]]

\* valid_indices, as model indices into detailed_comparisons
valid_keep_4(sim) == sim >= 40
valid_keep(sim) == sim >= min_similarity
valid_indices(comparisons) ==
    LET RECURSIVE walk(_)
        walk(k) ==
            IF k > Len(comparisons) THEN <<>>
            ELSE IF valid_keep(comparisons[k].similarity)
                 THEN <<k>> \o walk(k + 1)
                 ELSE walk(k + 1)
    IN  walk(1)

\* the similar_images list before sorting: entry for valid index k takes the
\* similarity and category of comparison k and ids[k+1], metadatas[k+1],
\* embeddings[k+1] (Python), i.e. model positions k + 1
unsorted_similar_images(res, comparisons, valid) ==
    [j \in 1..Len(valid) |->
        [id |-> res.ids[valid[j] + 1],
         category |-> comparisons[valid[j]].category,
         path |-> res.metadatas[valid[j] + 1].path,
         similarity |-> comparisons[valid[j]].similarity,
         metadata |-> res.metadatas[valid[j] + 1],
         features |-> extract_features(res.embeddings[valid[j] + 1])]]

\* list.sort(key=similarity, reverse=True): stable, descending
insert_sorted(x, sorted) ==
    LET k == Cardinality({i \in 1..Len(sorted) : sorted[i].similarity >= x.similarity})
    IN  SubSeq(sorted, 1, k) \o <<x>> \o SubSeq(sorted, k + 1, Len(sorted))

RECURSIVE sort_by_similarity(_)
sort_by_similarity(images) ==
    IF images = <<>> THEN <<>>
    ELSE insert_sorted(Last(images), sort_by_similarity(Front(images)))

\* similar_images[:5]
top_5(images) == Take(images, TopN)

\* category_stats over the top 5, keyed in order of first appearance
sims_of(images, cat) ==
    LET of_cat(img) == img.category = cat
        own == SelectSeq(images, of_cat)
    IN  [k \in 1..Len(own) |-> own[k].similarity]

percentage_floor(cat_total, total_sim) == (1000 * cat_total) \div total_sim
percentage(cat_total, total_sim) == RoundHalfEven(1000 * cat_total, total_sim)

category_stats(top) ==
    LET cats == KeyOrder([k \in 1..Len(top) |-> top[k].category])
        total_sim == SumSeq([k \in 1..Len(top) |-> top[k].similarity])
    IN  [c \in 1..Len(cats) |->
            [category |-> cats[c],
             count |-> Len(sims_of(top, cats[c])),
             total_sim |-> SumSeq(sims_of(top, cats[c])),
             max_sim |-> MaxSeq(sims_of(top, cats[c])),
             percentage |-> percentage(SumSeq(sims_of(top, cats[c])), total_sim)]]

stats_of(stats, cat) == stats[CHOOSE c \in 1..Len(stats) : stats[c].category = cat]

\* best_category: the category of the best match unless the first category
\* (in order of first appearance) with 3 or more of the top images
select_category_top1(top) == top[1].category
select_category(top) ==
    LET cats == KeyOrder([k \in 1..Len(top) |-> top[k].category])
        majority == {c \in 1..Len(cats) : Len(sims_of(top, cats[c])) >= MajorityCount}
    IN  IF majority = {} THEN top[1].category
        ELSE cats[CHOOSE c \in majority : \A d \in majority : c <= d]

\* category_diff, as a fraction over 1000 (similarities are in tenths)
category_diff(stats, best_category) ==
    LET best_stats == stats_of(stats, best_category)
        is_other(st) == st.category # best_category
        other_cats == SelectSeq(stats, is_other)
        second_best == MaxSeq([k \in 1..Len(other_cats) |-> other_cats[k].max_sim])
    IN  IF Len(stats) > 1 THEN best_stats.max_sim - second_best ELSE 1000

\* confidence before the polarity adjustment, in percent, as num / den:
\*   (similarity_factor * 0.4 + consistency_factor * 0.3
\*    + category_diff * 0.3) * 100
\* with similarity_factor = max_sim / 1000, consistency_factor =
\* count / len(top_5_images), category_diff over 1000, den = 100 * len
raw_confidence_div5(top, stats, best_category) ==
    LET best_stats == stats_of(stats, best_category)
        len == Len(top)
    IN  [num |-> 4 * best_stats.max_sim * len
                 + 600 * best_stats.count * len
                 + 3 * category_diff(stats, best_category) * len,
         den |-> 100 * len]
raw_confidence(top, stats, best_category) ==
    LET best_stats == stats_of(stats, best_category)
        len == Len(top)
    IN  [num |-> 4 * best_stats.max_sim * len
                 + 3000 * best_stats.count
                 + 3 * category_diff(stats, best_category) * len,
         den |-> 100 * len]

\* the 1.2 adjustment applies when the physical evidence agrees with the
\* category
polarity_agrees(has_lesions, best_category) ==
    \/ has_lesions /\ ~ContainsHealthy(best_category)
    \/ ~has_lesions /\ ContainsHealthy(best_category)

\* confidence after adjustment, clamping and round(.., 1), in tenths
final_confidence_unclamped(raw, has_lesions, best_category) ==
    RoundHalfEven(IF polarity_agrees(has_lesions, best_category)
                  THEN 12 * raw.num ELSE 10 * raw.num,
                  raw.den)
final_confidence(raw, has_lesions, best_category) ==
    LET den == 10 * raw.den
        adjusted == IF polarity_agrees(has_lesions, best_category)
                    THEN Min(100 * den, 12 * raw.num)
                    ELSE 10 * raw.num
        clamped == Max(0, Min(100 * den, adjusted))
    IN  RoundHalfEven(10 * clamped, den)

\* `if not valid_indices: return None`
no_valid_never(valid) == FALSE
no_valid(valid) == valid = <<>>

\* the else branch of `if len(top_5_images) > 0`: by the lesion flag, the
\* diseased category of highest max_sim, or leaf_healthy, or the category
\* of highest max_sim, as [category |-> ..]; max() of an empty sequence
\* raises ValueError
max_sim_category(stats) ==
    IF stats = <<>> THEN Raised("ValueError")
    ELSE [category |->
             stats[CHOOSE c \in 1..Len(stats) :
                       /\ \A d \in 1..Len(stats) : stats[d].max_sim <= stats[c].max_sim
                       /\ \A d \in 1..(c - 1) : stats[d].max_sim < stats[c].max_sim].category]
fallback_category(stats, has_lesions) ==
    LET diseased(st) == ~ContainsHealthy(st.category) /\ st.category # "unknown"
        disease_cats == SelectSeq(stats, diseased)
    IN  IF has_lesions /\ disease_cats # <<>> THEN max_sim_category(disease_cats)
        ELSE IF ~has_lesions /\ \E c \in 1..Len(stats) : stats[c].category = "leaf_healthy"
        THEN [category |-> "leaf_healthy"]
        ELSE max_sim_category(stats)

\* 'distances' not in results, with results = None: the operand is not
\* iterable
not_in_none_is_true(key) == None
not_in_none(key) == Raised("TypeError")

\* analyze_query_results(results): None, or the classification; the
\* membership test on results = None, ahead of the try block, raises; an
\* exception inside the try block gives None.  The
\* field `locals` keeps the value of the local variable `confidence`
\* before the polarity adjustment; it is not part of the returned dict.
analyze_query_results(results) ==
    LET res == results[1]
        has_lesions == results[2]
    IN  IF res = None
        THEN not_in_none("distances")
        ELSE IF Len(res.distances) = 0
        THEN None
        ELSE
        LET comparisons == detailed_comparisons(res)
            valid == valid_indices(comparisons)
            similar_images == sort_by_similarity(
                                  unsorted_similar_images(res, comparisons, valid))
            top_5_images == top_5(similar_images)
            stats == category_stats(top_5_images)
            best_category == IF Len(top_5_images) > 0
                             THEN select_category(top_5_images)
                             ELSE fallback_category(stats, has_lesions).category
            raw == raw_confidence(top_5_images, stats, best_category)
        IN  IF no_valid(valid)
            THEN None
            ELSE IF Len(top_5_images) = 0
                    /\ IsRaised(fallback_category(stats, has_lesions))
            THEN None
            ELSE [identified_category |-> best_category,
                  confidence |-> final_confidence(raw, has_lesions, best_category),
                  best_match |-> similar_images[1].similarity,
                  category_distribution |->
                      [c \in 1..Len(stats) |->
                          [category |-> stats[c].category,
                           percentage |-> stats[c].percentage]],
                  similar_images |-> top_5_images,
                  locals |-> [confidence |-> raw]]

\* which branch of the category selection analyze_query_results ran for
\* these results: "top5" (len(top_5_images) > 0), "fallback" (the else
\* branch), or "none" when it returned or raised before the selection
category_selection(results) ==
    IF results[1] = None THEN "none"
    ELSE IF Len(results[1].distances) = 0 THEN "none"
    ELSE LET comparisons == detailed_comparisons(results[1])
             valid == valid_indices(comparisons)
             top_5_images == top_5(sort_by_similarity(
                                 unsorted_similar_images(results[1], comparisons, valid)))
         IN  IF no_valid(valid) THEN "none"
             ELSE IF Len(top_5_images) > 0 THEN "top5"
             ELSE "fallback"

----------------------------------------------------------------------------
(* CBIREvaluationSystem.extract_confidence_features and                    *)
(* predict_revocation_risk                                                 *)

MinSimilarImages == 3

\* np.std(xs) as the exact population variance num / den:
\*   var = (n * sum(x^2) - sum(x)^2) / n^2
variance(xs) ==
    LET n == Len(xs)
        sq == [i \in 1..n |-> xs[i] * xs[i]]
    IN  [num |-> n * SumSeq(sq) - SumSeq(xs) * SumSeq(xs), den |-> n * n]

\* std > bound, for std = sqrt(var.num / var.den) and bound >= 0
std_exceeds(var, bound) == var.num > bound * bound * var.den

\* the number of images of the most frequent category
dominant_count(categories) ==
    LET keys == KeyOrder(categories)
        count(c) == Cardinality({i \in 1..Len(categories) : categories[i] = c})
    IN  MaxSeq([k \in 1..Len(keys) |-> count(keys[k])])

\* shape_features of the first three images: lesion count, coverage and
\* average lesion size of each, in hundredths (32-bit arithmetic cannot
\* square the sizes in thousandths; the coverages of the modelled vectors
\* are whole hundredths, so nothing is lost)
top3_shape_features(similar_images) ==
    LET top == Take(similar_images, 3)
        RECURSIVE walk(_)
        walk(i) ==
            IF i > Len(top) THEN <<>>
            ELSE << 100 * top[i].features.shape.num_lesions,
                    top[i].features.shape.disease_coverage \div 10,
                    100 * top[i].features.shape.avg_lesion_size >> \o walk(i + 1)
    IN  walk(1)

\* len(similar_images) < 3
too_few_images_lt2(similar_images) == Len(similar_images) < 2
too_few_images(similar_images) == Len(similar_images) < MinSimilarImages

\* extract_confidence_features(query_result): None or the features.  The
\* two standard deviations are kept as exact variances.
extract_confidence_features(query_result) ==
    IF query_result = None \/ "similar_images" \notin DOMAIN query_result
    THEN None
    ELSE
    LET similar_images == query_result.similar_images
        confidence == query_result.confidence
        similarities == [i \in 1..Len(similar_images) |-> similar_images[i].similarity]
        categories == [i \in 1..Len(similar_images) |-> similar_images[i].category]
        top_3_similarities == Take(similarities, 3)
    IN  IF too_few_images(similar_images)
        THEN None
        ELSE [confidence |-> confidence,
              max_similarity |-> MaxSeq(similarities),
              min_similarity |-> MinSeq(similarities),
              mean_similarity |-> [num |-> SumSeq(similarities), den |-> Len(similarities)],
              std_similarity |-> variance(similarities),
              category_consistency |-> [num |-> dominant_count(categories),
                                        den |-> Len(categories)],
              similarity_gap |-> MaxSeq(similarities) - MinSeq(top_3_similarities),
              shape_variability |-> variance(top3_shape_features(similar_images)),
              num_similar_images |-> Len(similar_images)]

\* the five rules in evaluation order: does it fire, its weight in tenths,
\* its entry in risk_factors (the Portuguese texts, written without accents;
\* the levels ALTO, MEDIO, BAIXO are HIGH, MEDIUM, LOW)
confidence_rule(features) == features.confidence < 600

risk_rules(features) ==
    << [fires |-> confidence_rule(features),
        weight |-> 4, factor |-> "Confianca muito baixa"],
       [fires |-> std_exceeds(features.std_similarity, 150),
        weight |-> 3, factor |-> "Alta variabilidade nas similaridades"],
       [fires |-> 10 * features.category_consistency.num
                  < 6 * features.category_consistency.den,
        weight |-> 3, factor |-> "Baixa consistencia de categoria"],
       [fires |-> features.similarity_gap > 200,
        weight |-> 2, factor |-> "Grande diferenca entre imagens similares"],
       [fires |-> std_exceeds(features.shape_variability, 50),
        weight |-> 2, factor |-> "Alta variabilidade nas caracteristicas de forma"] >>

\* risk_level from risk_score (tenths)
risk_level_gt(risk_score) ==
    IF risk_score > 8 THEN "ALTO" ELSE IF risk_score > 5 THEN "MEDIO" ELSE "BAIXO"
risk_level(risk_score) ==
    IF risk_score >= 8 THEN "ALTO" ELSE IF risk_score >= 5 THEN "MEDIO" ELSE "BAIXO"

\* predict_revocation_risk(query_result)
predict_revocation_risk(query_result) ==
    LET features == extract_confidence_features(query_result)
    IN  IF features = None
        THEN [revocation_risk |-> "ALTO",
              confidence |-> 0,
              reason |-> "Dados insuficientes para analise"]
        ELSE
        LET rules == risk_rules(features)
            is_fired(r) == r.fires
            fired == SelectSeq(rules, is_fired)
            risk_score == SumSeq([k \in 1..Len(fired) |-> fired[k].weight])
        IN  [revocation_risk |-> risk_level(risk_score),
             risk_score |-> risk_score,
             confidence |-> features.confidence,
             risk_factors |-> [k \in 1..Len(fired) |-> fired[k].factor],
             features |-> features]

----------------------------------------------------------------------------
(* The store (chromadb collection "leaf_diseases") and process_image       *)

\* an image file: its path as the list of its components, whether
\* cv2.imread can decode it, whether segment_leaf / extract_disease_features
\* raise on it, and the features extract_disease_features computes from it
ImageFile(path, readable, emb) ==
    [path |-> path, readable |-> readable, raises |-> FALSE, emb |-> emb]

\* a decodable image on which feature extraction raises
RaisingFile(path) ==
    [path |-> path, readable |-> TRUE, raises |-> TRUE, emb |-> Emb(0, 0, 0)]

\* path.split("/")[-1]
file_name(path) == path[Len(path)]

\* directory and file names that contain "leaf_"
LeafNames == {"leaf_healthy", "leaf_rust", "leaf_spot"}
ContainsLeaf(part) == part \in LeafNames

\* next((part for part in parts if 'leaf_' in part), None), as a sequence
\* of zero or one names
category_from_path(path) ==
    LET hits == {i \in 1..Len(path) : ContainsLeaf(path[i])}
    IN  IF hits = {} THEN <<>>
        ELSE <<path[CHOOSE i \in hits : \A j \in hits : i <= j]>>

\* the cosine distance the store reports between a query vector and a
\* stored vector, in hundredths: 0 for equal vectors, growing with the
\* difference, at most 2.0
store_distance(query_emb, emb) ==
    Min(200, 10 * Abs(query_emb[1] - emb[1])
             + Abs(query_emb[2] - emb[2])
             + Abs(query_emb[4] - emb[4]) \div 2)

\* collection.query(query_embeddings=[q], n_results=k): the k nearest stored
\* signatures, nearest first, equal distances in insertion order
insert_by_distance(x, sorted) ==
    LET k == Cardinality({i \in 1..Len(sorted) : sorted[i].distance <= x.distance})
    IN  SubSeq(sorted, 1, k) \o <<x>> \o SubSeq(sorted, k + 1, Len(sorted))

RECURSIVE sort_by_distance(_)
sort_by_distance(matches) ==
    IF matches = <<>> THEN <<>>
    ELSE insert_by_distance(Last(matches), sort_by_distance(Front(matches)))

collection_query(coll, query_emb, k) ==
    StoreAnswer(Take(sort_by_distance(
        [i \in 1..Len(coll) |->
            [id |-> coll[i].id,
             distance |-> store_distance(query_emb, coll[i].embedding),
             embedding |-> coll[i].embedding,
             metadata |-> coll[i].metadata]]), k))

\* collection.add(embeddings=[embedding], ids=[id], metadatas=[metadata]):
\* an id already present is left as it is
collection_add(coll, id, embedding, metadata) ==
    IF \E i \in 1..Len(coll) : coll[i].id = id
    THEN coll
    ELSE Append(coll, [id |-> id, embedding |-> embedding, metadata |-> metadata])

\* add_embedding(id, embedding, metadata): the category is taken from the
\* first path component containing "leaf_"; store_ok = FALSE is the store
\* raising, which add_embedding turns into the return value False
add_embedding(coll, id, embedding, metadata, store_ok) ==
    LET cat == category_from_path(metadata.path)
        meta == IF cat # <<>>
                THEN [path |-> metadata.path, type |-> metadata.type, category |-> cat[1]]
                ELSE metadata
    IN  IF store_ok
        THEN [ret |-> TRUE, collection |-> collection_add(coll, id, embedding, meta)]
        ELSE [ret |-> FALSE, collection |-> coll]

\* if save_to_db:
should_save_always(save_to_db) == TRUE
should_save(save_to_db) == save_to_db

\* process_image(path, save_to_db, visualize=False): the result dict, or
\* the error dict when the image cannot be loaded, or the exception that
\* feature extraction raised (process_image has no try block), and the
\* store afterwards
process_image(coll, file, save_to_db, store_ok) ==
    IF ~file.readable
    THEN [ret |-> [error |-> "Erro ao carregar a imagem."], collection |-> coll]
    ELSE IF file.raises
    THEN [ret |-> Raised("IndexError"), collection |-> coll]
    ELSE [ret |-> [features |-> file.emb],
          collection |->
              IF should_save(save_to_db)
              THEN add_embedding(coll, file_name(file.path), file.emb,
                                 [path |-> file.path, type |-> "leaf_disease"],
                                 store_ok).collection
              ELSE coll]

n_results == 5

\* how one turn of a loop body ends without a record: `continue`, or the
\* end of the body with `if analysis:` false
Skipped == [skipped |-> TRUE]

\* the record built at the end of the loop body of
\* evaluate_system_performance: reading revocation_prediction["risk_score"]
\* raises KeyError when the prediction is the insufficient-data dict
test_result(file, category_name, result, revocation_prediction) ==
    IF "risk_score" \notin DOMAIN revocation_prediction
    THEN Raised("KeyError")
    ELSE [record |-> [image_path |-> file.path,
                      true_category |-> category_name,
                      predicted_category |-> result.identified_category,
                      confidence |-> result.confidence,
                      revocation_risk |-> revocation_prediction.revocation_risk,
                      risk_score |-> revocation_prediction.risk_score]]

\* if analysis: ... predict_revocation_risk(analysis) ...; an exception of
\* analyze_query_results propagates
classified_record(file, category_name, result) ==
    IF IsRaised(result) THEN result
    ELSE IF result = None THEN Skipped
    ELSE test_result(file, category_name, result, predict_revocation_risk(result))

\* query_embedding(features, query_metadata) against the store as it is
store_answer(coll, features, store_ok) ==
    IF store_ok THEN collection_query(coll, features, n_results * 3) ELSE StoreRaised

\* `if not query_results`: a tuple is false only when it is empty
is_false(query_results_tuple) == Len(query_results_tuple) = 0

\* the query and what follows it in the loop body
queried_record(file, category_name, packed) ==
    IF is_false(packed) THEN Skipped
    ELSE classified_record(file, category_name, analyze_query_results(packed))

\* the part of the loop body that follows process_image
evaluate_processed(processed, file, category_name, store_ok) ==
    IF IsRaised(processed.ret)
    THEN [outcome |-> processed.ret, collection |-> processed.collection]
    ELSE IF "error" \in DOMAIN processed.ret
    THEN [outcome |-> Skipped, collection |-> processed.collection]
    ELSE [outcome |->
              queried_record(file, category_name,
                  query_embedding(processed.ret.features,
                      [path |-> file.path, type |-> "test_image", category |-> "test"],
                      store_answer(processed.collection, processed.ret.features,
                                   store_ok))),
          collection |-> processed.collection]

\* the body of the try block of evaluate_system_performance for one test
\* image: how it ends (a record appended to test_results, no record, or an
\* exception) and the store afterwards
evaluate_image(coll, file, category_name, store_ok) ==
    evaluate_processed(process_image(coll, file, FALSE, store_ok),
                       file, category_name, store_ok)

\* except Exception as e: of the loop of evaluate_system_performance
evaluate_catches_keyerror(exc) == exc = "KeyError"
evaluate_catches(exc) == exc \in {"TypeError", "KeyError", "IndexError"}

\* except Exception as e: of the loop of process_dataset
dataset_catches(exc) == exc \in {"TypeError", "KeyError", "IndexError"}

\* str(e) of a caught exception
str(e) ==
    IF "msg" \in DOMAIN e THEN e.msg
    ELSE IF e.exc = "TypeError" THEN "argument of type 'NoneType' is not iterable"
    ELSE IF e.exc = "KeyError" THEN "'risk_score'"
    ELSE "index -1 is out of bounds for axis 0 with size 0"

\* the parameters of process_image; a call with any other keyword raises
\* TypeError
process_image_params == {"path", "save_to_db", "visualize"}
unexpected_keyword(name) ==
    [tag |-> "raised", exc |-> "TypeError",
     msg |-> "process_image() got an unexpected keyword argument 'metadata'"]

\* the analysis image visualize_features writes next to the query image
analysis_file(file) ==
    ImageFile(Front(file.path) \o <<"query_leaf_analysis.jpg">>, TRUE, file.emb)

\* process_query_image from `if not analysis` on: the visualisation path
\* is always set, so a classification is followed by
\* engine.process_image(analysis_path, save_to_db=True, visualize=False,
\*                      metadata=analysis_metadata)
analysed_query(coll, file, analysis_result, store_ok) ==
    IF IsRaised(analysis_result)
    THEN [ret |-> [error |-> str(analysis_result)], collection |-> coll]
    ELSE IF analysis_result = None
    THEN [ret |-> [error |-> "Erro ao analisar resultados"], collection |-> coll]
    ELSE IF "metadata" \notin process_image_params
    THEN [ret |-> [error |-> str(unexpected_keyword("metadata"))], collection |-> coll]
    ELSE [ret |-> analysis_result,
          collection |-> process_image(coll, analysis_file(file), TRUE,
                                       store_ok).collection]

\* process_query_image from `if not query_results` on
queried_image(coll, file, packed, store_ok) ==
    IF is_false(packed)
    THEN [ret |-> [error |-> "Erro ao consultar banco de dados"], collection |-> coll]
    ELSE analysed_query(coll, file, analyze_query_results(packed), store_ok)

\* process_query_image after the first process_image; the whole body is
\* inside try / except Exception as e: return {"error": str(e)}
query_processed(processed, file, store_ok) ==
    IF IsRaised(processed.ret)
    THEN [ret |-> [error |-> str(processed.ret)], collection |-> processed.collection]
    ELSE IF "error" \in DOMAIN processed.ret
    THEN [ret |-> [error |-> processed.ret.error], collection |-> processed.collection]
    ELSE queried_image(processed.collection, file,
             query_embedding(processed.ret.features,
                 [path |-> file.path, type |-> "leaf_disease", category |-> "query"],
                 store_answer(processed.collection, processed.ret.features, store_ok)),
             store_ok)

\* process_query_image(image_path): the analysis or an error dict, and the
\* store afterwards
process_query_image(coll, file, store_ok) ==
    query_processed(process_image(coll, file, FALSE, store_ok), file, store_ok)

\* get_database_stats()["total_images"]: the number of stored signatures,
\* 0 when collection.get() raises
total_images(coll, store_ok) == IF store_ok THEN Len(coll) ELSE 0

----------------------------------------------------------------------------
(* Specification of calculate_similarity: the arguments are drawn from     *)
(* bounded sets, one action applies the function.                          *)

MaxLesions == 8
Dists == {0, 25, 50, 75, 100, 125, 150, 175, 200}
Coverages == {0, 10, 19, 20, 50, 51, 100, 160, 220, 300}
ShapeEmbs == {Emb(n, 0, c) : n \in 0..MaxLesions, c \in Coverages}

\* the variables of the other specifications stay parked
NoCall == [tag |-> "NoCall"]
analyzeVars == <<an_in, query_results, analysis>>
ParkAnalyze == an_in = NoCall /\ query_results = Pending /\ analysis = Pending
simVars == <<sim_args, sim_ret>>
ParkSimilarity == sim_args = NoCall /\ sim_ret = Pending
riskVars == <<risk_arg, prediction>>
ParkRisk == risk_arg = NoCall /\ prediction = Pending
featVars == <<fx_in, fx_out>>
ParkFeatures == fx_in = NoCall /\ fx_out = Pending
progVars == <<collection, handle_stale, pc, last_run, todo, dataset_stats, test_results,
              store_before, runs, corpus, log, query_ret>>
ParkProgram ==
    /\ collection = <<>>
    /\ handle_stale = FALSE
    /\ pc = "idle"
    /\ last_run = "none"
    /\ todo = <<>>
    /\ dataset_stats = [processed |-> 0, errors |-> 0]
    /\ test_results = <<>>
    /\ store_before = <<>>
    /\ runs = 0
    /\ corpus = <<>>
    /\ log = <<>>
    /\ query_ret = Pending

InitSimilarity ==
    /\ sim_args \in [dist : Dists, emb1 : ShapeEmbs, emb2 : ShapeEmbs]
    /\ sim_ret = Pending
    /\ ParkAnalyze
    /\ ParkRisk
    /\ ParkProgram
    /\ ParkFeatures

CallCalculateSimilarity ==
    /\ sim_ret = Pending
    /\ sim_ret' = <<calculate_similarity(sim_args.dist, sim_args.emb1, sim_args.emb2)>>
    /\ UNCHANGED <<sim_args, analyzeVars, riskVars, progVars, featVars>>

vars == <<simVars, analyzeVars, riskVars, progVars, featVars>>

NextSimilarity == CallCalculateSimilarity

SpecSimilarity == InitSimilarity /\ [][NextSimilarity]_vars

----------------------------------------------------------------------------
(* Claims about calculate_similarity                                       *)

\* the claim's own reading of "healthy" and "significantly diseased"
ClaimHealthy(emb) == emb[1] <= 1 /\ emb[4] < 20
ClaimDiseased(emb) == emb[1] >= 3 \/ emb[4] > 50
DisjointHealth(a) ==
    \/ ClaimHealthy(a.emb1) /\ ClaimDiseased(a.emb2)
    \/ ClaimHealthy(a.emb2) /\ ClaimDiseased(a.emb1)

\* C1: whenever one vector is healthy (lesion count <= 1, coverage < 0.02)
\* and the other significantly diseased (lesion count >= 3 or coverage >
\* 0.05), calculate_similarity returns exactly 5.0, for every distance.
C1_DisjointHealthIsFive ==
    (Returned(sim_ret) /\ DisjointHealth(sim_args)) => Val(sim_ret) = 50

\* Scenario A: query (0 lesions, coverage 0) against candidate (5 lesions,
\* coverage 0.1) has been scored.
C1_Witness ==
    /\ sim_ret = <<50>>
    /\ sim_args.emb1 = Emb(0, 0, 0)
    /\ sim_args.emb2 = Emb(5, 0, 100)
    /\ sim_args.dist = 0

\* C2: for every distance in [0,2] and every pair of vectors with
\* non-negative lesion count and coverage the returned similarity lies in
\* [0,95].
C2_SimilarityRange ==
    Returned(sim_ret) => (Val(sim_ret) >= 0 /\ Val(sim_ret) <= 950)

\* a pair that earns the 1.2 bonus and is stopped by the cap at 95
C2_Witness ==
    /\ sim_ret = <<950>>
    /\ sim_args.dist = 0
    /\ sim_args.emb1 = sim_args.emb2
    /\ ~DisjointHealth(sim_args)

\* the penalties by bucket, in tenths and in hundredths; the bucket of a
\* difference of 0 is a parameter
C22_LesionBucket(diff, at_zero) ==
    IF diff = 0 THEN at_zero
    ELSE IF diff <= 2 THEN 9 ELSE IF diff <= 4 THEN 8 ELSE IF diff <= 6 THEN 7 ELSE 6
C22_AreaBucket(diff, at_zero) ==
    IF diff = 0 THEN at_zero
    ELSE IF diff <= 50 THEN 95 ELSE IF diff <= 100 THEN 85 ELSE IF diff <= 150 THEN 75 ELSE 65
C22_LesionDiff == Abs(sim_args.emb1[1] - sim_args.emb2[1])
C22_AreaDiff == Abs(sim_args.emb1[4] - sim_args.emb2[4])

\* C22 as stated: outside the disjoint-health case the blended score is
\* multiplied by the penalty of the bucket of each difference, a difference
\* of 0 falling in the first bucket (0.90 and 0.95).
C22_Penalties_AsClaimed ==
    (Returned(sim_ret) /\ ~DisjointHealth(sim_args)) =>
        Val(sim_ret) = penalised_similarity(sim_args.dist, sim_args.emb1, sim_args.emb2,
                                            C22_LesionBucket(C22_LesionDiff, 9),
                                            C22_AreaBucket(C22_AreaDiff, 95))

\* C22 amended: a difference of 0 carries no penalty (factor 1.0); a
\* difference above 0 carries the penalty of its bucket.
C22_Penalties ==
    (Returned(sim_ret) /\ ~DisjointHealth(sim_args)) =>
        Val(sim_ret) = penalised_similarity(sim_args.dist, sim_args.emb1, sim_args.emb2,
                                            C22_LesionBucket(C22_LesionDiff, 10),
                                            C22_AreaBucket(C22_AreaDiff, 100))

\* both penalties of a middle bucket acted and the result is below the cap
C22_Witness ==
    /\ Returned(sim_ret)
    /\ ~DisjointHealth(sim_args)
    /\ C22_LesionDiff = 4
    /\ C22_AreaDiff = 100
    /\ sim_args.dist = 25
    /\ Val(sim_ret) \in 1..949

\* no difference at all, and a score the first-bucket penalties would lower
C22_WitnessNoDifference ==
    /\ Returned(sim_ret)
    /\ C22_LesionDiff = 0
    /\ C22_AreaDiff = 0
    /\ sim_args.dist = 50
    /\ Val(sim_ret) >
          penalised_similarity(sim_args.dist, sim_args.emb1, sim_args.emb2, 9, 95)

\* C18: two identical vectors that are both significantly diseased, at
\* distance 0, get a similarity in [80, 95].
C18_IdenticalDiseasedPair ==
    /\ sim_args.emb1 = sim_args.emb2
    /\ sim_args.dist = 0
    /\ sim_args.emb1[1] >= 3 \/ sim_args.emb1[4] > 50
C18_IdenticalDiseased ==
    (Returned(sim_ret) /\ C18_IdenticalDiseasedPair) => Val(sim_ret) \in 800..950

\* a pair significant by coverage alone, with no lesion counted
C18_Witness ==
    /\ Returned(sim_ret)
    /\ C18_IdenticalDiseasedPair
    /\ sim_args.emb1 = Emb(0, 0, 51)

----------------------------------------------------------------------------
(* Specification of the query-then-classify path: the store's answer to    *)
(* the query is drawn from bounded sets, query_embedding packs it,         *)
(* analyze_query_results classifies it.  The cell `analysis` holds what    *)
(* the function returned and, second, the branch of the category selection *)
(* it ran.                                                                 *)

MaxAnswer == 8

H0 == Emb(0, 0, 0)
M2 == Emb(2, 35, 30)
D5 == Emb(5, 40, 100)

\* the signatures the store's answer is built from, nearest first
Kinds ==
    << [distance |-> 0,   embedding |-> H0, metadata |-> Meta("a.jpg", "leaf_healthy", "leaf_disease")],
       [distance |-> 5,   embedding |-> D5, metadata |-> Meta("b.jpg", "leaf_rust", "leaf_disease")],
       [distance |-> 10,  embedding |-> M2, metadata |-> Meta("c.jpg", "leaf_rust", "leaf_disease")],
       [distance |-> 20,  embedding |-> M2, metadata |-> Meta("d.jpg", "leaf_healthy", "leaf_disease")],
       [distance |-> 30,  embedding |-> H0, metadata |-> Meta("e.jpg", "Healthy_leaf", "leaf_disease")],
       [distance |-> 40,  embedding |-> D5, metadata |-> Meta("f_analysis.jpg", "leaf_with_disease", "leaf_disease_analysis")],
       [distance |-> 60,  embedding |-> D5, metadata |-> Meta("g.jpg", "query", "leaf_disease")],
       [distance |-> 120, embedding |-> H0, metadata |-> Meta("h.jpg", "leaf_spot", "leaf_disease")],
       [distance |-> 200, embedding |-> M2, metadata |-> Meta("i.jpg", "leaf_healthy", "leaf_disease")] >>

\* the non-decreasing index sequences of length n over lo..Len(Kinds)
RECURSIVE Ascending(_, _)
Ascending(n, lo) ==
    IF n = 0 THEN {<<>>}
    ELSE UNION {{<<k>> \o t : t \in Ascending(n - 1, k)} : k \in lo..Len(Kinds)}

\* collection.query answers: matches ordered by distance, ids by position
Answers ==
    {StoreAnswer([i \in 1..Len(ks) |->
        [id |-> i,
         distance |-> Kinds[ks[i]].distance,
         embedding |-> Kinds[ks[i]].embedding,
         metadata |-> Kinds[ks[i]].metadata]]) :
     ks \in UNION {Ascending(n, 1) : n \in 0..MaxAnswer}}
    \cup {StoreRaised}

QueryEmbs == {H0, D5}
QueryMeta == Meta("query.jpg", "query", "leaf_disease")

InitAnalyze ==
    /\ an_in \in [query_emb : QueryEmbs, answer : Answers]
    /\ query_results = Pending
    /\ analysis = Pending
    /\ ParkSimilarity
    /\ ParkRisk
    /\ ParkProgram
    /\ ParkFeatures

CallQueryEmbedding ==
    /\ query_results = Pending
    /\ query_results' = <<query_embedding(an_in.query_emb, QueryMeta, an_in.answer)>>
    /\ UNCHANGED <<an_in, analysis, simVars, riskVars, progVars, featVars>>

CallAnalyzeQueryResults ==
    /\ Returned(query_results)
    /\ analysis = Pending
    /\ analysis' = <<analyze_query_results(Val(query_results)),
                     category_selection(Val(query_results))>>
    /\ UNCHANGED <<an_in, query_results, simVars, riskVars, progVars, featVars>>

NextAnalyze == CallQueryEmbedding \/ CallAnalyzeQueryResults

SpecAnalyze == InitAnalyze /\ [][NextAnalyze]_vars

----------------------------------------------------------------------------
(* Claims about analyze_query_results                                      *)

Classified ==
    Returned(analysis) /\ Val(analysis) # None /\ ~IsRaised(Val(analysis))
Inconclusive == Returned(analysis) /\ Val(analysis) = None

\* the candidates the classifier scored, recomputed from the packed results
ScoredSims ==
    LET cmp == detailed_comparisons(Val(query_results)[1])
    IN  [k \in 1..Len(cmp) |-> cmp[k].similarity]

\* C3: a returned classification has a non-empty similar_images list of at
\* most 5 entries, ordered by non-increasing similarity, every entry at
\* similarity >= 40; when no scored candidate reaches 40 the function
\* returns None instead of a classification.
C3_SimilarImagesShape ==
    /\ Classified =>
        LET imgs == Val(analysis).similar_images
        IN  /\ Len(imgs) >= 1
            /\ Len(imgs) <= 5
            /\ \A i \in 1..Len(imgs) : imgs[i].similarity >= 400
            /\ \A i \in 1..(Len(imgs) - 1) : imgs[i].similarity >= imgs[i + 1].similarity
    /\ (/\ Returned(analysis)
        /\ ~an_in.answer.raised
        /\ Len(an_in.answer.matches) > 0
        /\ \A k \in 1..Len(ScoredSims) : ScoredSims[k] < 400)
       => Val(analysis) = None

\* more than five candidates reached 40, one did not, and the best one was
\* not the first scored: filter, sort and truncation all acted
C3_Witness ==
    /\ Classified
    /\ Len(Val(analysis).similar_images) = 5
    /\ Cardinality({k \in 1..Len(ScoredSims) : ScoredSims[k] >= 400}) > 5
    /\ \E k \in 1..Len(ScoredSims) : ScoredSims[k] < 400
    /\ ScoredSims[1] < Val(analysis).similar_images[1].similarity

\* all scored candidates are below 40 and the result is None
C3_WitnessInconclusive ==
    /\ Inconclusive
    /\ Len(ScoredSims) >= 2
    /\ \A k \in 1..Len(ScoredSims) : ScoredSims[k] < 400

CountIn(imgs, cat) == Cardinality({i \in 1..Len(imgs) : imgs[i].category = cat})

\* C4: the winning category is the category of the highest-similarity match
\* among the top 5, unless another category holds at least 3 of the top-5
\* slots, and then that category wins.
C4_WinningCategory ==
    Classified =>
        LET imgs == Val(analysis).similar_images
            top1 == imgs[1].category
            others == {imgs[i].category : i \in 1..Len(imgs)} \ {top1}
            majority == {c \in others : CountIn(imgs, c) >= 3}
        IN  IF majority = {}
            THEN Val(analysis).identified_category = top1
            ELSE Val(analysis).identified_category \in majority

\* the best match is of one category and three other slots of another
C4_Witness ==
    /\ Classified
    /\ Val(analysis).identified_category # Val(analysis).similar_images[1].category
    /\ CountIn(Val(analysis).similar_images, Val(analysis).identified_category) >= 3

\* the maximum similarity among the top images of one category
MaxSimOf(imgs, cat) ==
    CHOOSE m \in {imgs[i].similarity : i \in {j \in 1..Len(imgs) : imgs[j].category = cat}} :
        \A i \in 1..Len(imgs) : imgs[i].category = cat => imgs[i].similarity <= m

\* winning max similarity minus runner-up max similarity, over 1000; 1000
\* stands for the margin 1.0 of the single-category case
MarginOf(imgs, win) ==
    LET others == {imgs[i].category : i \in 1..Len(imgs)} \ {win}
    IN  IF others = {} THEN 1000
        ELSE MaxSimOf(imgs, win)
             - (CHOOSE m \in {MaxSimOf(imgs, c) : c \in others} :
                    \A c \in others : MaxSimOf(imgs, c) <= m)

\* C5 as stated: before the polarity bonus and clamping, confidence =
\* 100 x (0.4 x best-match-similarity/100 + 0.3 x winning-count/5 + 0.3 x
\* margin), the best match being the single best match and the count
\* divided by 5 whatever the number of surviving candidates.
\* (x 500: 20 x best + 3000 x count + 15 x margin-over-1000)
C5_ConfidenceFormula_AsClaimed ==
    Classified =>
        LET a == Val(analysis)
            imgs == a.similar_images
            raw == a.locals.confidence
        IN  raw.num * 500
            = raw.den * (20 * imgs[1].similarity
                         + 3000 * CountIn(imgs, a.identified_category)
                         + 15 * MarginOf(imgs, a.identified_category))

\* C5 amended: confidence = 100 x (0.4 x winning-category max similarity/100
\* + 0.3 x winning-count / number of top images + 0.3 x margin).
\* (x 100 x n: 4 x max x n + 3000 x count + 3 x margin-over-1000 x n)
C5_ConfidenceFormula ==
    Classified =>
        LET a == Val(analysis)
            imgs == a.similar_images
            n == Len(imgs)
            raw == a.locals.confidence
        IN  raw.num * 100 * n
            = raw.den * (4 * MaxSimOf(imgs, a.identified_category) * n
                         + 3000 * CountIn(imgs, a.identified_category)
                         + 3 * MarginOf(imgs, a.identified_category) * n)

\* fewer than five survivors, two categories, a majority category that is
\* not the best match's
C5_Witness ==
    /\ Classified
    /\ Len(Val(analysis).similar_images) = 4
    /\ Val(analysis).identified_category # Val(analysis).similar_images[1].category
    /\ MarginOf(Val(analysis).similar_images, Val(analysis).identified_category) < 0

\* C17: the confidence of a returned classification lies in [0, 100], also
\* when the winning majority category has a lower maximum similarity than
\* the runner-up and when the 1.2 polarity bonus applies.
C17_ConfidenceRange ==
    Classified => Val(analysis).confidence \in 0..1000

C17_Bonus ==
    polarity_agrees(Val(query_results)[2], Val(analysis).identified_category)

\* a majority winner below the runner-up's maximum, with the bonus
C17_Witness ==
    /\ Classified
    /\ MarginOf(Val(analysis).similar_images, Val(analysis).identified_category) < 0
    /\ C17_Bonus
    /\ Val(analysis).confidence \in 1..999

\* the bonus takes the confidence beyond 100 and the cap holds it there
C17_WitnessCap ==
    /\ Classified
    /\ C17_Bonus
    /\ 12 * Val(analysis).locals.confidence.num > 1000 * Val(analysis).locals.confidence.den
    /\ Val(analysis).confidence = 1000

\* C19: the similarity of every entry of similar_images is the similarity
\* of a returned candidate, computed from that candidate's distance, the
\* query image's vector and that candidate's vector.
C19_FromQueryVector(similarity) ==
    \E i \in 1..Len(an_in.answer.matches) :
        similarity = calculate_similarity(an_in.answer.matches[i].distance,
                                          an_in.query_emb,
                                          an_in.answer.matches[i].embedding)
C19_SimilarityFromQueryVector ==
    Classified =>
        \A j \in 1..Len(Val(analysis).similar_images) :
            C19_FromQueryVector(Val(analysis).similar_images[j].similarity)

\* a diseased query whose nearest stored neighbour is healthy: the diseased
\* candidate behind it is scored against the neighbour and gets 5.0
C19_ScoredAgainstNeighbour ==
    /\ Returned(analysis)
    /\ an_in.query_emb = D5
    /\ ~an_in.answer.raised
    /\ Len(an_in.answer.matches) = 2
    /\ an_in.answer.matches[1].embedding = H0
    /\ an_in.answer.matches[2].embedding = D5
    /\ an_in.answer.matches[2].metadata.type # "leaf_disease_analysis"
    /\ calculate_similarity(an_in.answer.matches[2].distance, D5, D5) >= 400
    /\ Val(analysis) = None

\* the candidates of the store's answer that are not analysis artifacts
\* (the query itself is not in the store), scored as the code scores: against
\* the first returned vector
C20_Eligible ==
    {i \in 1..Len(an_in.answer.matches) :
        an_in.answer.matches[i].metadata.type # "leaf_disease_analysis"}
C20_Score(i) ==
    calculate_similarity(an_in.answer.matches[i].distance,
                         an_in.answer.matches[1].embedding,
                         an_in.answer.matches[i].embedding)
C20_Passing == {i \in C20_Eligible : C20_Score(i) >= 400}

\* the n highest scores of the candidates in `from`, in descending order
RECURSIVE C20_Highest(_, _)
C20_Highest(from, n) ==
    IF from = {} \/ n = 0 THEN <<>>
    ELSE LET best == CHOOSE i \in from : \A k \in from : C20_Score(k) <= C20_Score(i)
         IN  <<C20_Score(best)>> \o C20_Highest(from \ {best}, n - 1)

\* C20: the similar_images are the five highest-scoring of all returned
\* candidates that are not analysis artifacts and score at least 40; none of
\* them is left out of scoring.
C20_TopFiveOfAllCandidates ==
    (Returned(analysis) /\ ~an_in.answer.raised) =>
        IF C20_Passing = {}
        THEN Val(analysis) = None
        ELSE /\ Classified
             /\ [j \in 1..Len(Val(analysis).similar_images) |->
                     Val(analysis).similar_images[j].similarity]
                = C20_Highest(C20_Passing, 5)

\* the store returns one signature, at distance 0, and the query gets no
\* classification
C20_NearestLeftOut ==
    /\ Returned(analysis)
    /\ ~an_in.answer.raised
    /\ Len(an_in.answer.matches) = 1
    /\ an_in.answer.matches[1].distance = 0
    /\ C20_Passing = {1}
    /\ Val(analysis) = None

\* C21: in every entry of similar_images the id, the category, the path and
\* metadata, the similarity and the features are those of one returned
\* candidate (the similarity being the one the code gives that candidate).
C21_EntryOf(img, i) ==
    LET own == an_in.answer.matches[i]
    IN  /\ img.id = own.id
        /\ img.metadata = own.metadata
        /\ img.path = own.metadata.path
        /\ img.category = normalize_category(get_category(own.metadata))
        /\ img.features = extract_features(own.embedding)
        /\ img.similarity = calculate_similarity(own.distance,
                                                 an_in.answer.matches[1].embedding,
                                                 own.embedding)
C21_EntriesAreOneSignature ==
    Classified =>
        \A j \in 1..Len(Val(analysis).similar_images) :
            \E i \in 1..Len(an_in.answer.matches) :
                C21_EntryOf(Val(analysis).similar_images[j], i)

\* no artifact in the answer: the entry has the id and the features of
\* the second candidate and the path of the first
C21_PathOfPrevious ==
    /\ Classified
    /\ Len(an_in.answer.matches) = 2
    /\ an_in.answer.matches[1].metadata.path = "a.jpg"
    /\ an_in.answer.matches[2].metadata.path = "d.jpg"
    /\ Val(analysis).similar_images[1].id = an_in.answer.matches[2].id
    /\ Val(analysis).similar_images[1].features = extract_features(M2)
    /\ Val(analysis).similar_images[1].path = "a.jpg"

\* an artifact skipped in the middle: the id and the features are also
\* those of another candidate than the one scored
C21_ShiftAfterArtifact ==
    /\ Classified
    /\ \E i \in 2..(Len(an_in.answer.matches) - 1) :
           an_in.answer.matches[i].metadata.type = "leaf_disease_analysis"
    /\ \E j \in 1..Len(Val(analysis).similar_images) :
           \A i \in 1..Len(an_in.answer.matches) :
               ~(/\ Val(analysis).similar_images[j].id = an_in.answer.matches[i].id
                 /\ Val(analysis).similar_images[j].similarity =
                        calculate_similarity(an_in.answer.matches[i].distance,
                                             an_in.answer.matches[1].embedding,
                                             an_in.answer.matches[i].embedding))

\* C25: the fallback branch of the category selection never runs: when the
\* selection is reached the top-5 list is not empty, and when no scored
\* candidate passed the filter the function returned before the selection.
C25_FallbackUnreachable ==
    Returned(analysis) =>
        /\ analysis[2] # "fallback"
        /\ analysis[2] = "top5" =>
               (Classified /\ Len(Val(analysis).similar_images) >= 1)
        /\ (/\ ~an_in.answer.raised
            /\ \A k \in 1..Len(ScoredSims) : ScoredSims[k] < 400)
           => (analysis[2] = "none" /\ Val(analysis) = None)

\* the selection ran on a single survivor out of several scored candidates
C25_Witness ==
    /\ Returned(analysis)
    /\ analysis[2] = "top5"
    /\ Len(Val(analysis).similar_images) = 1
    /\ Len(ScoredSims) >= 3

\* candidates were scored, none passed, and the selection was not reached
C25_WitnessNoSurvivor ==
    /\ Returned(analysis)
    /\ analysis[2] = "none"
    /\ ~an_in.answer.raised
    /\ Len(ScoredSims) >= 2

SumPercentages(dist) == SumSeq([c \in 1..Len(dist) |-> dist[c].percentage])

\* C6: the category_distribution percentages of a returned classification
\* sum to 100 within +/-0.1.
C6_DistributionSums ==
    Classified =>
        /\ SumPercentages(Val(analysis).category_distribution) >= 999
        /\ SumPercentages(Val(analysis).category_distribution) <= 1001

\* three categories are present and rounding moved the sum off 100.0
C6_Witness ==
    /\ Classified
    /\ Len(Val(analysis).category_distribution) = 3
    /\ SumPercentages(Val(analysis).category_distribution) # 1000

----------------------------------------------------------------------------
(* Specification of the risk predictor: the ClassificationResult is drawn  *)
(* from bounded sets, one action applies predict_revocation_risk.          *)

MaxSimilar == 5

RiskSims == <<400, 700, 750, 780, 820, 850>>
RiskCategories == {"leaf_healthy", "leaf_with_disease"}
RiskConfidences == {599, 600, 800}

\* the non-increasing similarity lists of length n, taken from RiskSims
RECURSIVE Descending(_, _)
Descending(n, hi) ==
    IF n = 0 THEN {<<>>}
    ELSE UNION {{<<RiskSims[k]>> \o t : t \in Descending(n - 1, k)} : k \in 1..hi}

\* the shape features of the matches, by position: all without lesions, or
\* lesioned and lesion-free leaves alternating
ShapeProfiles == {"flat", "varied"}
ShapeAt(profile, i) ==
    IF profile = "varied" /\ i % 2 = 1
    THEN extract_features(Emb(5, 40, 100))
    ELSE extract_features(Emb(0, 0, 0))

ClassificationResults ==
    {[confidence |-> conf,
      similar_images |->
          [i \in 1..Len(sims) |->
              [similarity |-> sims[i],
               category |-> cats[i],
               features |-> ShapeAt(profile, i)]]] :
     conf \in RiskConfidences,
     profile \in ShapeProfiles,
     sims \in UNION {Descending(n, Len(RiskSims)) : n \in 0..MaxSimilar},
     cats \in [1..MaxSimilar -> RiskCategories]}

InitRisk ==
    /\ risk_arg \in ClassificationResults
    /\ prediction = Pending
    /\ ParkSimilarity
    /\ ParkAnalyze
    /\ ParkProgram
    /\ ParkFeatures

CallPredictRevocationRisk ==
    /\ prediction = Pending
    /\ prediction' = <<predict_revocation_risk(risk_arg)>>
    /\ UNCHANGED <<risk_arg, simVars, analyzeVars, progVars, featVars>>

NextRisk == CallPredictRevocationRisk

SpecRisk == InitRisk /\ [][NextRisk]_vars

----------------------------------------------------------------------------
(* Claims about predict_revocation_risk                                    *)

Scored == Returned(prediction) /\ "risk_score" \in DOMAIN Val(prediction)

\* C7 as stated: for every ClassificationResult with at least 3
\* similar_images the risk_score lies in [0,1].
C7_RiskScoreInUnitInterval ==
    (Returned(prediction) /\ Len(risk_arg.similar_images) >= 3)
        => /\ Scored
           /\ Val(prediction).risk_score >= 0
           /\ Val(prediction).risk_score <= 10

\* a result with confidence 59.9 and similarities 75, 40, 40 over lesioned
\* and lesion-free matches fires four rules: 0.4 + 0.3 + 0.2 + 0.2
C7_Overshoot ==
    /\ Scored
    /\ Len(risk_arg.similar_images) >= 3
    /\ Val(prediction).risk_score > 10

\* the sum over i < j of (x_i - x_j)^2, which is n^2 times the variance
PairwiseSquares(xs) ==
    LET n == Len(xs)
        RECURSIVE row(_, _)
        row(i, j) ==
            IF j > n THEN 0
            ELSE (xs[i] - xs[j]) * (xs[i] - xs[j]) + row(i, j + 1)
        RECURSIVE rows(_)
        rows(i) == IF i >= n THEN 0 ELSE row(i, i + 1) + rows(i + 1)
    IN  rows(1)

\* the rule table of the claim, evaluated on the argument: similarities in
\* tenths, shape features (lesion count, coverage, average lesion size of
\* the first three matches) in hundredths
TableRules(arg) ==
    LET imgs == arg.similar_images
        n == Len(imgs)
        sims == [i \in 1..n |-> imgs[i].similarity]
        maxSim == CHOOSE m \in Range(sims) : \A x \in Range(sims) : x <= m
        top3 == {sims[i] : i \in 1..3}
        minTop3 == CHOOSE m \in top3 : \A x \in top3 : m <= x
        cats == {imgs[i].category : i \in 1..n}
        dominant == CHOOSE c \in cats : \A d \in cats : CountIn(imgs, d) <= CountIn(imgs, c)
        shapes == [k \in 1..9 |->
                     LET sh == imgs[((k - 1) \div 3) + 1].features.shape
                     IN  CASE k % 3 = 1 -> 100 * sh.num_lesions
                           [] k % 3 = 2 -> sh.disease_coverage \div 10
                           [] OTHER -> 100 * sh.avg_lesion_size]
    IN  << [fires |-> arg.confidence < 600, weight |-> 4,
            factor |-> "Confianca muito baixa"],
           [fires |-> PairwiseSquares(sims) > 150 * 150 * n * n, weight |-> 3,
            factor |-> "Alta variabilidade nas similaridades"],
           [fires |-> 10 * CountIn(imgs, dominant) < 6 * n, weight |-> 3,
            factor |-> "Baixa consistencia de categoria"],
           [fires |-> maxSim - minTop3 > 200, weight |-> 2,
            factor |-> "Grande diferenca entre imagens similares"],
           [fires |-> PairwiseSquares(shapes) > 50 * 50 * 81, weight |-> 2,
            factor |-> "Alta variabilidade nas caracteristicas de forma"] >>

TableFired(arg) == LET f(r) == r.fires IN SelectSeq(TableRules(arg), f)
TableScore(fired) == SumSeq([k \in 1..Len(fired) |-> fired[k].weight])

\* C8: the prediction equals the rule table: the score is the sum of the
\* weights of the rules that fire, risk_factors lists exactly the fired
\* rules in evaluation order, the level is HIGH from 0.8, MEDIUM from 0.5,
\* else LOW.
C8_RuleTable ==
    (Returned(prediction) /\ Len(risk_arg.similar_images) >= 3) =>
        \E fired \in {TableFired(risk_arg)} :
            \E score \in {TableScore(fired)} :
                /\ Scored
                /\ Val(prediction).risk_score = score
                /\ Val(prediction).risk_factors
                       = [k \in 1..Len(fired) |-> fired[k].factor]
                /\ Val(prediction).revocation_risk
                       = (IF score >= 8 THEN "ALTO"
                          ELSE IF score >= 5 THEN "MEDIO" ELSE "BAIXO")

\* Scenario B: five leaf_healthy matches at 85, 82, 78, 75, 70 with
\* confidence 80 give score 0, no factor, level LOW
C8_Witness ==
    /\ Scored
    /\ risk_arg.confidence = 800
    /\ [i \in 1..Len(risk_arg.similar_images) |-> risk_arg.similar_images[i].similarity]
           = <<850, 820, 780, 750, 700>>
    /\ \A i \in 1..5 : risk_arg.similar_images[i].category = "leaf_healthy"
    /\ \A i \in 1..5 : risk_arg.similar_images[i].features.shape.num_lesions = 0
    /\ Val(prediction).risk_score = 0
    /\ Val(prediction).risk_factors = <<>>
    /\ Val(prediction).revocation_risk = "BAIXO"

\* C9: with fewer than 3 similar_images the prediction is risk level HIGH
\* with the single explanation "insufficient data", whatever the confidence
\* and the similarities.
C9_InsufficientData ==
    (Returned(prediction) /\ Len(risk_arg.similar_images) < 3) =>
        /\ Val(prediction).revocation_risk = "ALTO"
        /\ DOMAIN Val(prediction) = {"revocation_risk", "confidence", "reason"}
        /\ Val(prediction).reason = "Dados insuficientes para analise"

\* two strong, consistent matches with confidence 80 still give HIGH
C9_Witness ==
    /\ Returned(prediction)
    /\ Len(risk_arg.similar_images) = 2
    /\ risk_arg.confidence = 800
    /\ risk_arg.similar_images[1].similarity = 850
    /\ risk_arg.similar_images[2].similarity = 850
    /\ Val(prediction).revocation_risk = "ALTO"

----------------------------------------------------------------------------
(* Specification of the program: runs of cbir.py main() over a persistent  *)
(* store, each run optionally clearing the store and then either ingesting *)
(* a reference directory (process_dataset) or evaluating a test corpus     *)
(* (evaluate_system_performance).                                          *)

MaxRuns == 3

\* reference directories, as the image files in iteration order
TrainA ==
    << ImageFile(<<"dataset", "leaf_healthy", "h1.jpg">>, TRUE, Emb(0, 0, 0)),
       ImageFile(<<"dataset", "leaf_healthy", "h2.jpg">>, TRUE, Emb(1, 30, 10)),
       ImageFile(<<"dataset", "leaf_healthy", "h3.jpg">>, TRUE, Emb(0, 0, 0)),
       ImageFile(<<"dataset", "leaf_rust", "r1.jpg">>, TRUE, Emb(5, 40, 100)),
       ImageFile(<<"dataset", "leaf_rust", "h1.jpg">>, TRUE, Emb(2, 35, 30)) >>
TrainB ==
    << ImageFile(<<"extra", "leaf_rust", "r2.jpg">>, TRUE, Emb(4, 45, 80)),
       ImageFile(<<"extra", "leaf_rust", "broken.jpg">>, FALSE, Emb(0, 0, 0)),
       ImageFile(<<"extra", "Healthy_leaf", "h4.jpg">>, TRUE, Emb(1, 30, 10)) >>
TrainDirs == {TrainA, TrainB}

\* test corpora
TestA ==
    << ImageFile(<<"test_dataset", "leaf_rust", "t2.jpg">>, TRUE, Emb(5, 40, 100)),
       ImageFile(<<"test_dataset", "leaf_rust", "bad.jpg">>, FALSE, Emb(0, 0, 0)),
       RaisingFile(<<"test_dataset", "leaf_rust", "black.jpg">>),
       ImageFile(<<"test_dataset", "leaf_healthy", "t1.jpg">>, TRUE, Emb(0, 0, 0)) >>
TestB ==
    << ImageFile(<<"test_small", "leaf_rust", "t3.jpg">>, TRUE, Emb(2, 35, 30)) >>
TestDirs == {TestA, TestB}

\* the image main() analyses in query mode (image/uploads/query_leaf.jpg)
QueryFiles ==
    { ImageFile(<<"image", "uploads", "query_leaf.jpg">>, TRUE, Emb(0, 0, 0)),
      ImageFile(<<"image", "uploads", "query_leaf.jpg">>, TRUE, Emb(5, 40, 100)),
      ImageFile(<<"image", "uploads", "query_leaf.jpg">>, FALSE, Emb(0, 0, 0)),
      RaisingFile(<<"image", "uploads", "query_leaf.jpg">>) }

Init ==
    /\ collection = <<>>
    /\ handle_stale = FALSE
    /\ pc = "idle"
    /\ last_run = "none"
    /\ todo = <<>>
    /\ dataset_stats = [processed |-> 0, errors |-> 0]
    /\ test_results = <<>>
    /\ store_before = <<>>
    /\ runs = 0
    /\ corpus = <<>>
    /\ log = <<>>
    /\ query_ret = Pending
    /\ ParkSimilarity
    /\ ParkAnalyze
    /\ ParkRisk
    /\ ParkFeatures

\* main(): a new process; with --clear-db, clear_database() deletes and
\* re-creates the collection through the client and leaves the module's
\* handle on the deleted one; then process_dataset,
\* evaluate_system_performance or the analysis of the query image starts
StartMain(clear_db, mode, dir) ==
    /\ pc = "idle"
    /\ runs < MaxRuns
    /\ runs' = runs + 1
    /\ collection' = IF clear_db THEN <<>> ELSE collection
    /\ handle_stale' = clear_db
    /\ pc' = mode
    /\ last_run' = mode
    /\ todo' = dir
    /\ corpus' = dir
    /\ log' = <<>>
    /\ query_ret' = Pending
    /\ dataset_stats' = [processed |-> 0, errors |-> 0]
    /\ test_results' = <<>>
    /\ store_before' = collection'
    /\ UNCHANGED <<simVars, analyzeVars, riskVars, featVars>>

StartProcessDataset ==
    \E clear_db \in BOOLEAN, dir \in TrainDirs : StartMain(clear_db, "process", dir)

StartEvaluate ==
    \E clear_db \in BOOLEAN, dir \in TestDirs : StartMain(clear_db, "evaluate", dir)

StartQuery ==
    \E clear_db \in BOOLEAN, file \in QueryFiles : StartMain(clear_db, "query", <<file>>)

\* one turn of the loop of process_dataset: an error dict or a caught
\* exception counts under errors, anything else under processed; an
\* exception the except clause does not catch ends the process
ProcessNext ==
    /\ pc = "process"
    /\ todo # <<>>
    /\ \E store_ok \in BOOLEAN :
          \E done \in {process_image(collection, Head(todo), TRUE,
                                     store_ok /\ ~handle_stale)} :
              /\ collection' = done.collection
              /\ log' = Append(log, [file |-> Head(todo),
                                     store_ok |-> store_ok /\ ~handle_stale,
                                     fault |-> ~store_ok,
                                     outcome |-> done.ret])
              /\ dataset_stats' =
                     IF IsRaised(done.ret) \/ "error" \in DOMAIN done.ret
                     THEN [dataset_stats EXCEPT !.errors = @ + 1]
                     ELSE [dataset_stats EXCEPT !.processed = @ + 1]
              /\ pc' = IF IsRaised(done.ret) /\ ~dataset_catches(done.ret.exc)
                       THEN "idle" ELSE pc
    /\ todo' = Tail(todo)
    /\ UNCHANGED <<handle_stale, last_run, test_results, store_before, runs, corpus,
                   query_ret, simVars, analyzeVars, riskVars, featVars>>

\* process_dataset prints its summary and main() returns
FinishProcessDataset ==
    /\ pc = "process"
    /\ todo = <<>>
    /\ pc' = "idle"
    /\ UNCHANGED <<collection, handle_stale, last_run, todo, dataset_stats, test_results,
                   store_before, runs, corpus, log, query_ret,
                   simVars, analyzeVars, riskVars, featVars>>

\* one turn of the loop of evaluate_system_performance: a record is
\* appended, or the image is skipped, or the exception is caught by the
\* loop's except clause; an exception it does not catch ends the process
EvaluateNext ==
    /\ pc = "evaluate"
    /\ todo # <<>>
    /\ \E store_ok \in BOOLEAN :
          \E done \in {evaluate_image(collection, Head(todo),
                                      Head(todo).path[Len(Head(todo).path) - 1],
                                      store_ok /\ ~handle_stale)} :
              /\ collection' = done.collection
              /\ log' = Append(log, [file |-> Head(todo),
                                     store_ok |-> store_ok /\ ~handle_stale,
                                     fault |-> ~store_ok,
                                     outcome |-> done.outcome])
              /\ test_results' = IF "record" \in DOMAIN done.outcome
                                 THEN Append(test_results, done.outcome.record)
                                 ELSE test_results
              /\ pc' = IF IsRaised(done.outcome) /\ ~evaluate_catches(done.outcome.exc)
                       THEN "idle" ELSE pc
    /\ todo' = Tail(todo)
    /\ UNCHANGED <<handle_stale, last_run, dataset_stats, store_before, runs, corpus,
                   query_ret, simVars, analyzeVars, riskVars, featVars>>

\* evaluate_system_performance returns and main() ends
FinishEvaluate ==
    /\ pc = "evaluate"
    /\ todo = <<>>
    /\ pc' = "idle"
    /\ UNCHANGED <<collection, handle_stale, last_run, todo, dataset_stats, test_results,
                   store_before, runs, corpus, log, query_ret,
                   simVars, analyzeVars, riskVars, featVars>>

\* main() in query mode: with an empty store (or one whose statistics
\* cannot be read) it returns at once; otherwise process_query_image runs
\* on the query image and main() prints what it returned
QueryNext ==
    /\ pc = "query"
    /\ \E stats_ok \in BOOLEAN, store_ok \in BOOLEAN :
          \E done \in {process_query_image(collection, Head(todo),
                                           store_ok /\ ~handle_stale)} :
              IF total_images(collection, stats_ok /\ ~handle_stale) = 0
              THEN UNCHANGED <<collection, log, query_ret>>
              ELSE /\ collection' = done.collection
                   /\ log' = Append(log, [file |-> Head(todo),
                                          store_ok |-> store_ok /\ ~handle_stale,
                                     fault |-> ~store_ok,
                                          outcome |-> done.ret])
                   /\ query_ret' = <<done.ret>>
    /\ pc' = "idle"
    /\ todo' = <<>>
    /\ UNCHANGED <<handle_stale, last_run, dataset_stats, test_results, store_before,
                   runs, corpus, simVars, analyzeVars, riskVars, featVars>>

Next ==
    \/ StartProcessDataset
    \/ StartEvaluate
    \/ StartQuery
    \/ ProcessNext
    \/ FinishProcessDataset
    \/ EvaluateNext
    \/ FinishEvaluate
    \/ QueryNext

Spec == Init /\ [][Next]_vars

\* the loops of main() make progress: every turn and every return that is
\* enabled is eventually taken
FairSpec ==
    /\ Spec
    /\ WF_vars(ProcessNext) /\ WF_vars(FinishProcessDataset)
    /\ WF_vars(EvaluateNext) /\ WF_vars(FinishEvaluate)
    /\ WF_vars(QueryNext)

----------------------------------------------------------------------------
(* Claims about the evaluation harness                                     *)

\* an image failed: at load, in extraction, at the store query, or later
\* in classification or risk prediction (its turn ended without a record)
C11_Failed(entry) ==
    \/ ~entry.file.readable
    \/ entry.file.raises
    \/ ~entry.store_ok
    \/ "record" \notin DOMAIN entry.outcome

C11_Records ==
    LET ok(entry) == ~C11_Failed(entry)
        kept == SelectSeq(log, ok)
    IN  [k \in 1..Len(kept) |-> kept[k].outcome.record]

C11_NoAbort ==
    last_run = "evaluate" =>
        /\ Len(log) <= Len(corpus)
        /\ \A i \in 1..Len(log) : log[i].file = corpus[i]
        /\ pc = "idle" => Len(log) = Len(corpus)
        /\ test_results = C11_Records
        /\ \A i \in 1..Len(log) :
               ~C11_Failed(log[i]) => log[i].outcome.record.image_path = log[i].file.path

\* C11: in evaluate_system_performance the failure of one image at any
\* stage never aborts the run: the images are visited in order, the run
\* ends only after the whole corpus was visited, it does end, and the
\* records are exactly those of the images that did not fail.
C11_FailureNeverAborts ==
    /\ []C11_NoAbort
    /\ (pc = "evaluate") ~> (pc = "idle")

\* a finished run over four images: the second failed to load, the third
\* raised in extraction, and the fourth still got its record
C11_Witness ==
    /\ last_run = "evaluate"
    /\ pc = "idle"
    /\ Len(log) = 4
    /\ ~log[2].file.readable
    /\ IsRaised(log[3].outcome)
    /\ "record" \in DOMAIN log[4].outcome
    /\ Len(test_results) >= 1

\* C10: the evaluation harness is query-only: during and after a run of
\* evaluate_system_performance the stored signatures are exactly those
\* present when the run started.
C10_EvaluationIsQueryOnly ==
    last_run = "evaluate" => collection = store_before

\* a run over a populated store has finished with a record for a test image
\* that was processed and classified
C10_Witness ==
    /\ last_run = "evaluate"
    /\ pc = "idle"
    /\ Len(collection) >= 4
    /\ Len(test_results) >= 1

----------------------------------------------------------------------------
(* Claims about batch ingestion                                            *)

\* the store's add failed for an image that was loaded and extracted
C12_AddFailed(entry) ==
    entry.file.readable /\ ~entry.file.raises /\ ~entry.store_ok

C12_MarkedFailed(entry) ==
    ~entry.file.readable \/ entry.file.raises \/ C12_AddFailed(entry)

\* C12 as stated: in process_dataset an image whose add failed is counted
\* under errors, not under processed, and the batch continues with the
\* remaining images.
C12_AddFailureCountsAsError ==
    last_run = "process" =>
        /\ dataset_stats.errors
               = Cardinality({i \in 1..Len(log) : C12_MarkedFailed(log[i])})
        /\ dataset_stats.processed
               = Cardinality({i \in 1..Len(log) : ~C12_MarkedFailed(log[i])})
        /\ pc = "idle" => Len(log) = Len(corpus)

\* the batch went on after an image whose add failed, and that image was
\* counted under processed
C12_AddFailureCountedProcessed ==
    /\ last_run = "process"
    /\ pc = "idle"
    /\ Len(log) = Len(corpus)
    /\ \E i \in 1..Len(log) : C12_AddFailed(log[i])
    /\ dataset_stats.processed
           > Cardinality({i \in 1..Len(log) : ~C12_MarkedFailed(log[i])})

----------------------------------------------------------------------------
(* Claims about the query-then-classify path of process_query_image        *)

C13_NoClassificationMessage == "Erro ao analisar resultados"

\* the query image was loaded and its features extracted
C13_Queried ==
    /\ last_run = "query"
    /\ Returned(query_ret)
    /\ Len(log) = 1
    /\ log[1].file.readable
    /\ ~log[1].file.raises

C13_StoreFailed == C13_Queried /\ ~log[1].store_ok

\* the query succeeded and no candidate reached 40% similarity
C13_NoCandidate ==
    /\ C13_Queried
    /\ log[1].store_ok
    /\ \E packed \in {query_embedding(log[1].file.emb,
                          [path |-> log[1].file.path, type |-> "leaf_disease",
                           category |-> "query"],
                          collection_query(store_before, log[1].file.emb,
                                           n_results * 3))} :
          \A k \in 1..Len(detailed_comparisons(packed[1])) :
              detailed_comparisons(packed[1])[k].similarity < 400

\* C13: when the store's query fails, process_query_image returns an
\* explicit error result, and it differs from the result returned when the
\* query succeeds but no candidate reaches 40% similarity.
C13_StoreErrorIsDistinct ==
    /\ C13_StoreFailed =>
           /\ DOMAIN Val(query_ret) = {"error"}
           /\ Val(query_ret).error # C13_NoClassificationMessage
    /\ C13_NoCandidate =>
           Val(query_ret) = [error |-> C13_NoClassificationMessage]

\* the query of a populated store failed and the caller got the message
\* of the TypeError
C13_Witness ==
    /\ C13_StoreFailed
    /\ Len(store_before) >= 2
    /\ Val(query_ret) = [error |-> "argument of type 'NoneType' is not iterable"]

\* the query succeeded on a populated store and nothing reached 40%
C13_WitnessNoCandidate ==
    /\ C13_NoCandidate
    /\ Len(store_before) >= 2

----------------------------------------------------------------------------
(* extract_disease_features (engine/processing_engine.py).  The image is   *)
(* a GridSize x GridSize pixel grid (the code resizes to 224 x 224); masks *)
(* are sets of pixels.  A float is Num(v) or NaN.  Histogram values are in  *)
(* thousandths, HSV statistics in hundredths, disease coverage in          *)
(* thousandths, areas in pixels.                                           *)

GridSize == 12

Grid == {<<x, y>> : x \in 1..GridSize, y \in 1..GridSize}
Rect(x1, x2, y1, y2) ==
    {p \in Grid : x1 <= p[1] /\ p[1] <= x2 /\ y1 <= p[2] /\ p[2] <= y2}

NaN == [nan |-> TRUE, val |-> 0]
Num(v) == [nan |-> FALSE, val |-> v]
Zeros(n) == [i \in 1..n |-> Num(0)]

\* cv2.dilate with a (2r+1) x (2r+1) kernel of ones: pixels beyond the image
\* border do not count as set
dilate(mask, r) ==
    {p \in Grid : \E dx \in -r..r, dy \in -r..r : <<p[1] + dx, p[2] + dy>> \in mask}

\* cv2.erode with the same kernel: pixels beyond the border do not erode
erode(mask, r) ==
    {p \in mask : \A dx \in -r..r, dy \in -r..r :
                      <<p[1] + dx, p[2] + dy>> \in Grid => <<p[1] + dx, p[2] + dy>> \in mask}

\* cv2.morphologyEx(.., MORPH_OPEN, ..) and (.., MORPH_CLOSE, ..)
morph_open(mask, r) == dilate(erode(mask, r), r)
morph_close(mask, r) == erode(dilate(mask, r), r)

\* the largest r with r * r <= x
RECURSIVE isqrt_between(_, _, _)
isqrt_between(x, lo, hi) ==
    IF lo >= hi THEN lo
    ELSE LET mid == (lo + hi + 1) \div 2
         IN  IF mid * mid <= x THEN isqrt_between(x, mid, hi)
             ELSE isqrt_between(x, lo, mid - 1)
isqrt(x) == isqrt_between(x, 0, 46340)

\* the values of one channel at the pixels of valid_mask, as pairs
\* <<value, count>> in ascending order of value; pixels of the lesion
\* candidate region have the lesion's value, the others the leaf's
channel_values(img, low, high, low_is_lesion) ==
    LET n_lesion == Cardinality(img.leaf \cap img.lesion)
        n_plain == Cardinality(img.leaf \ img.lesion)
        pairs == IF low_is_lesion
                 THEN <<<<low, n_lesion>>, <<high, n_plain>>>>
                 ELSE <<<<low, n_plain>>, <<high, n_lesion>>>>
        present(pr) == pr[2] > 0
    IN  SelectSeq(pairs, present)

count_of(values) == SumSeq([k \in 1..Len(values) |-> values[k][2]])
sum_of(values) == SumSeq([k \in 1..Len(values) |-> values[k][1] * values[k][2]])
sum_sq_of(values) ==
    SumSeq([k \in 1..Len(values) |-> values[k][1] * values[k][1] * values[k][2]])

\* the value at index i (from 0) of the sorted array
RECURSIVE sorted_at(_, _)
sorted_at(values, i) ==
    IF i < values[1][2] THEN values[1][1]
    ELSE sorted_at(Tail(values), i - values[1][2])

\* np.mean and np.std of an empty array are nan (with a RuntimeWarning)
np_mean(values) ==
    IF values = <<>> THEN NaN
    ELSE Num((100 * sum_of(values)) \div count_of(values))

np_std(values) ==
    IF values = <<>> THEN NaN
    ELSE Num((100 * isqrt(count_of(values) * sum_sq_of(values)
                          - sum_of(values) * sum_of(values))) \div count_of(values))

\* np.percentile(a, q) by linear interpolation; on an empty array it gives
\* nan or raises IndexError, depending on the numpy release, and only the
\* first case comes here
np_percentile(values, q) ==
    IF values = <<>> THEN NaN
    ELSE LET pos == (count_of(values) - 1) * q
             lo == sorted_at(values, pos \div 100)
             hi == sorted_at(values, Min(count_of(values) - 1, pos \div 100 + 1))
         IN  Num(100 * lo + (hi - lo) * (pos % 100))

\* [mean, std, q25, q75] of one channel over valid_mask
channel_stats(values) ==
    <<np_mean(values), np_std(values), np_percentile(values, 25),
      np_percentile(values, 75)>>

\* cv2.calcHist([hsv], [c], mask, [32], [0, range]) divided by total_pixels
\* when total_pixels > 0
histogram(values, range) ==
    LET total_pixels == count_of(values)
        in_bin(b) == LET hit(pr) == (pr[1] * 32) \div range = b
                     IN  count_of(SelectSeq(values, hit))
    IN  [b \in 1..32 |->
            IF total_pixels > 0
            THEN Num((1000 * in_bin(b - 1)) \div total_pixels)
            ELSE Num(in_bin(b - 1))]

\* the mask a detector contributes: its criterion, restricted to valid_mask
candidate(img, which) ==
    IF which = "none" THEN {}
    ELSE IF which = "same" THEN img.lesion \cap img.leaf
    ELSE img.leaf

\* combined_mask: weighted_sum >= 2.0 with weights 1.5, 1.2, 1.0
combined_mask_strong_alone(hsv_mask, lab_mask, texture_mask) ==
    {p \in Grid : 15 * (IF p \in hsv_mask THEN 1 ELSE 0)
                  + 12 * (IF p \in lab_mask THEN 1 ELSE 0)
                  + 10 * (IF p \in texture_mask THEN 1 ELSE 0) >= 15}
combined_mask(hsv_mask, lab_mask, texture_mask) ==
    {p \in Grid : 15 * (IF p \in hsv_mask THEN 1 ELSE 0)
                  + 12 * (IF p \in lab_mask THEN 1 ELSE 0)
                  + 10 * (IF p \in texture_mask THEN 1 ELSE 0) >= 20}

\* cv2.findContours(mask, RETR_EXTERNAL, CHAIN_APPROX_SIMPLE) for a mask
\* that is empty or one filled rectangle: the contour runs through the
\* centres of the corner pixels
find_contours(mask) ==
    IF mask = {} THEN <<>>
    ELSE LET xs == {p[1] : p \in mask}
             ys == {p[2] : p \in mask}
         IN  <<[x1 |-> CHOOSE x \in xs : \A z \in xs : x <= z,
                x2 |-> CHOOSE x \in xs : \A z \in xs : z <= x,
                y1 |-> CHOOSE y \in ys : \A z \in ys : y <= z,
                y2 |-> CHOOSE y \in ys : \A z \in ys : z <= y]>>

contourArea(cnt) == (cnt.x2 - cnt.x1) * (cnt.y2 - cnt.y1)
arcLength(cnt) == 2 * ((cnt.x2 - cnt.x1) + (cnt.y2 - cnt.y1))

\* cv2.drawContours(mask, [contour], -1, 255, -1): the filled contour
drawContours(cnt) == Rect(cnt.x1, cnt.x2, cnt.y1, cnt.y2)

\* min_area < area < max_area with min_area = max(10, leaf_area * 0.0008)
\* and max_area = leaf_area * 0.35
area_in_range(area, leaf_area) ==
    /\ 10000 * area > Max(100000, 8 * leaf_area)
    /\ 100 * area < 35 * leaf_area

\* 0.2 < 4 * pi * area / perimeter^2 < 0.95
circularity_in_range(cnt) ==
    /\ arcLength(cnt) > 0
    /\ 4 * 31416 * contourArea(cnt) > 2000 * arcLength(cnt) * arcLength(cnt)
    /\ 4 * 31416 * contourArea(cnt) < 9500 * arcLength(cnt) * arcLength(cnt)

\* the contour loop of detect_disease_regions: final_mask
final_mask(img, contours) ==
    UNION {drawContours(contours[k]) :
              k \in {j \in 1..Len(contours) :
                        /\ area_in_range(contourArea(contours[j]), Cardinality(img.leaf))
                        /\ img.contour_valid
                        /\ circularity_in_range(contours[j])}}

\* detect_disease_regions(): the three detectors and their fusion
\* (detected), then dilation, opening, closing and the contour filter
detected(img) ==
    combined_mask(candidate(img, "same"), candidate(img, img.lab),
                  candidate(img, img.texture))
detect_disease_regions(img) ==
    final_mask(img,
        find_contours(morph_close(morph_open(dilate(detected(img), 1), 1), 2)))

\* the offsets (dx, dy) of calculate_glcm_features for distances 1, 2 and
\* angles 0, pi/4, pi/2, 3pi/4
glcm_offsets ==
    <<<<1, 0>>, <<1, 1>>, <<0, 1>>, <<-1, 1>>, <<2, 0>>, <<1, 1>>, <<0, 2>>, <<-1, 1>>>>

\* glcm.sum(): the pairs of pixels, both in the disease regions, over all
\* offsets
glcm_sum(disease_regions) ==
    SumSeq([k \in 1..Len(glcm_offsets) |->
               Cardinality({p \in disease_regions :
                               <<p[1] + glcm_offsets[k][1], p[2] + glcm_offsets[k][2]>>
                                   \in disease_regions})])

\* if glcm.sum() == 0: return [0] * 8
glcm_is_empty_never(disease_regions) == FALSE
glcm_is_empty(disease_regions) == glcm_sum(disease_regions) = 0

\* calculate_glcm_features: zeros, or the eight statistics of the
\* co-occurrence matrix of this image
calculate_glcm_features(img, disease_regions) ==
    IF glcm_is_empty(disease_regions) THEN Zeros(8)
    ELSE [k \in 1..8 |-> Num(img.glcm[k])]

\* calculate_lbp: zeros when np.sum(disease_regions) == 0, or the four
\* statistics of the local-pattern histogram of this image
calculate_lbp(img, disease_regions) ==
    IF Cardinality(disease_regions) = 0 THEN Zeros(4)
    ELSE [k \in 1..4 |-> Num(img.lbp[k])]

\* the shape block: contours of the disease mask with area > 30
shape_min_area == 30
shape_features(img, disease_mask) ==
    LET big(cnt) == contourArea(cnt) > shape_min_area
        valid_contours == SelectSeq(find_contours(disease_mask), big)
        areas == [k \in 1..Len(valid_contours) |-> contourArea(valid_contours[k])]
        total_leaf_area == Cardinality(img.leaf)
    IN  IF valid_contours = <<>> THEN Zeros(8)
        ELSE << Num(Len(valid_contours)),
                Num(SumSeq(areas) \div Len(areas)),
                Num(0),
                Num((1000 * SumSeq(areas)) \div total_leaf_area),
                Num((1000 * Len(valid_contours)) \div total_leaf_area),
                Num(((31416 * areas[1]) \div 25)
                        \div (arcLength(valid_contours[1]) * arcLength(valid_contours[1]))),
                Num(0),
                Num(0) >>

\* features.extend(...) in the order of the code
feature_blocks(img, disease_mask) ==
    histogram(channel_values(img, 15, 60, TRUE), 180)
    \o histogram(channel_values(img, 100, 200, TRUE), 256)
    \o histogram(channel_values(img, 80, 150, TRUE), 256)
    \o channel_stats(channel_values(img, 15, 60, TRUE))
    \o channel_stats(channel_values(img, 100, 200, TRUE))
    \o channel_stats(channel_values(img, 80, 150, TRUE))
    \o calculate_glcm_features(img, disease_mask)
    \o calculate_lbp(img, disease_mask)
    \o shape_features(img, disease_mask)

\* the rest of extract_disease_features once disease_mask is known; the
\* field `locals` keeps combined_mask, a local of detect_disease_regions
\* that is not part of what the function returns
extracted(img, disease_mask) ==
    [features |-> feature_blocks(img, disease_mask),
     mask |-> img.leaf,
     disease_mask |-> disease_mask,
     locals |-> [combined_mask |-> detected(img)]]

\* extract_disease_features(image, mask): the feature vector (with the two
\* masks it was taken over), or the IndexError of np.percentile on the
\* empty leaf region
extract_disease_features(img) ==
    IF img.leaf = {} /\ img.percentile_raises
    THEN Raised("IndexError")
    ELSE extracted(img, detect_disease_regions(img))

----------------------------------------------------------------------------
(* Specification of extract_disease_features as a pure function: an image  *)
(* is its leaf mask (segment_leaf), one rectangular lesion candidate, what *)
(* the luminance and texture detectors flag, whether the contour passes    *)
(* the intensity or texture test, and the texture statistics of its        *)
(* disease regions.                                                        *)

LeafMasks ==
    { {}, Grid, Rect(2, GridSize - 1, 2, GridSize - 1), Rect(5, GridSize - 1, 2, GridSize - 1) }

Lesions ==
    { {} } \cup { Rect(x1, x1 + w - 1, y1, y1 + h - 1) :
                    x1 \in {2, 5}, w \in {1, 3, 7}, y1 \in {2, 5}, h \in {1, 3, 4} }

Detections == {"none", "same", "all"}

GlcmStatistics == { <<12, 80, 5, 60, 3, 150, 0, 7>>, <<40, 10, 1, 20, 9, 310, 2, 1>> }
LbpStatistics == { <<90, 30, 4, 210>> }

Images ==
    [leaf : LeafMasks, lesion : Lesions, lab : Detections, texture : Detections,
     contour_valid : BOOLEAN, percentile_raises : BOOLEAN,
     glcm : GlcmStatistics, lbp : LbpStatistics]

InitFeatures ==
    /\ fx_in \in Images
    /\ fx_out = Pending
    /\ ParkSimilarity
    /\ ParkAnalyze
    /\ ParkRisk
    /\ ParkProgram

CallExtractDiseaseFeatures ==
    /\ fx_out = Pending
    /\ fx_out' = <<extract_disease_features(fx_in)>>
    /\ UNCHANGED <<fx_in, simVars, analyzeVars, riskVars, progVars>>

NextFeatures == CallExtractDiseaseFeatures

SpecFeatures == InitFeatures /\ [][NextFeatures]_vars

Extracted == Returned(fx_out) /\ ~IsRaised(Val(fx_out))

\* C14: the feature vector has 128 values laid out as 96 histogram values,
\* 12 colour statistics, 8 co-occurrence values, 4 local-pattern values and
\* 8 shape values, and the last 20 are all zero when the disease mask is
\* empty.
C14_Block(first, last) == SubSeq(Val(fx_out).features, first, last)
C14_Mass(first) == SumSeq([k \in 1..32 |-> C14_Block(first, first + 31)[k].val])
C14_Given(statistics) == [k \in 1..Len(statistics) |-> Num(statistics[k])]
C14_VectorLayout ==
    Extracted =>
        /\ Len(Val(fx_out).features) = 128
        /\ fx_in.leaf # {} =>
              /\ \A first \in {1, 33, 65} : C14_Mass(first) \in 969..1000
              /\ \A k \in 97..108 : ~Val(fx_out).features[k].nan
              /\ Val(fx_out).features[97].val \in 1500..6000
              /\ Val(fx_out).features[101].val \in 10000..20000
              /\ Val(fx_out).features[105].val \in 8000..15000
        /\ C14_Block(109, 116) \in {Zeros(8), C14_Given(fx_in.glcm)}
        /\ C14_Block(117, 120) \in {Zeros(4), C14_Given(fx_in.lbp)}
        /\ C14_Block(121, 121) \in {<<Num(0)>>, <<Num(1)>>}
        /\ Val(fx_out).disease_mask = {} => C14_Block(109, 128) = Zeros(20)

C14_Witness ==
    /\ Extracted
    /\ fx_in.leaf # {}
    /\ fx_in.leaf \cap fx_in.lesion # {}
    /\ fx_in.lab = "same"
    /\ Val(fx_out).disease_mask = {}

C14_WitnessLesion ==
    /\ Extracted
    /\ Val(fx_out).disease_mask # {}
    /\ C14_Block(109, 116) = C14_Given(fx_in.glcm)
    /\ C14_Block(121, 121) = <<Num(1)>>

C14_WitnessSmallLesion ==
    /\ Extracted
    /\ Val(fx_out).disease_mask # {}
    /\ C14_Block(117, 120) = C14_Given(fx_in.lbp)
    /\ C14_Block(121, 128) = Zeros(8)

\* C15: for an image whose leaf mask is empty the extraction returns, and
\* every colour statistic taken over the empty leaf region is zero.
C15_EmptyLeafYieldsZeros ==
    (Returned(fx_out) /\ fx_in.leaf = {}) =>
        /\ ~IsRaised(Val(fx_out))
        /\ \A k \in 97..108 : Val(fx_out).features[k] = Num(0)

C15_EmptyLeafNaN ==
    /\ Extracted
    /\ fx_in.leaf = {}
    /\ \A k \in 97..108 : Val(fx_out).features[k] = NaN
    /\ \A k \in 1..96 : Val(fx_out).features[k] = Num(0)

C15_EmptyLeafRaises ==
    /\ Returned(fx_out)
    /\ fx_in.leaf = {}
    /\ Val(fx_out) = Raised("IndexError")

\* C16: every pixel of the disease mask is a pixel of the leaf mask.
C16_DiseaseMaskWithinLeaf ==
    Extracted => Val(fx_out).disease_mask \subseteq fx_in.leaf

C16_LesionAtLeafEdge ==
    /\ Extracted
    /\ fx_in.leaf = Rect(5, GridSize - 1, 2, GridSize - 1)
    /\ fx_in.lesion = Rect(5, 7, 5, 7)
    /\ Val(fx_out).disease_mask = Rect(4, 8, 4, 8)

C16_LesionInside ==
    /\ Extracted
    /\ Val(fx_out).disease_mask # {}
    /\ Val(fx_out).disease_mask \subseteq fx_in.leaf

\* the classification the harness obtained for a logged test image, from
\* the store as it is throughout the run
C23_Analysis(entry) ==
    analyze_query_results(
        query_embedding(entry.file.emb,
                        [path |-> entry.file.path, type |-> "test_image", category |-> "test"],
                        store_answer(collection, entry.file.emb, entry.store_ok)))
C23_FewSimilar(entry) ==
    /\ entry.file.readable
    /\ ~entry.file.raises
    /\ entry.store_ok
    /\ \E result \in {C23_Analysis(entry)} :
          /\ ~IsRaised(result)
          /\ result # None
          /\ Len(result.similar_images) \in {1, 2}

\* C23: in the evaluation harness a test image classified from 1 or 2
\* similar images raises nothing and gets a result record with risk HIGH.
C23_FewSimilarGetsHighRecord ==
    last_run = "evaluate" =>
        \A i \in 1..Len(log) :
            C23_FewSimilar(log[i]) =>
                /\ "record" \in DOMAIN log[i].outcome
                /\ log[i].outcome.record.revocation_risk = "ALTO"

\* such an image ended its turn in the KeyError of reading risk_score, and
\* the run finished without a record for it
C23_FewSimilarNoRecord ==
    /\ last_run = "evaluate"
    /\ pc = "idle"
    /\ \E i \in 1..Len(log) :
          /\ C23_FewSimilar(log[i])
          /\ log[i].outcome = Raised("KeyError")
          /\ \A k \in 1..Len(test_results) : test_results[k].image_path # log[i].file.path

\* the three detector flags of a pixel, and their weighted sum in tenths
C24_Color(p) == p \in fx_in.leaf \cap fx_in.lesion
C24_Luminance(p) ==
    \/ fx_in.lab = "same" /\ p \in fx_in.leaf \cap fx_in.lesion
    \/ fx_in.lab = "all" /\ p \in fx_in.leaf
C24_Texture(p) ==
    \/ fx_in.texture = "same" /\ p \in fx_in.leaf \cap fx_in.lesion
    \/ fx_in.texture = "all" /\ p \in fx_in.leaf
C24_Flag(b) == IF b THEN 1 ELSE 0
C24_WeightedSum(p) ==
    15 * C24_Flag(C24_Color(p)) + 12 * C24_Flag(C24_Luminance(p))
    + 10 * C24_Flag(C24_Texture(p))
C24_Fired(p) ==
    C24_Flag(C24_Color(p)) + C24_Flag(C24_Luminance(p)) + C24_Flag(C24_Texture(p))

C24_WitnessWeakPair ==
    /\ Extracted
    /\ \E p \in Val(fx_out).locals.combined_mask : ~C24_Color(p)
    /\ \E p \in Val(fx_out).locals.combined_mask : C24_Fired(p) = 3
C24_WitnessColorPairs ==
    /\ Extracted
    /\ \E p \in Val(fx_out).locals.combined_mask : C24_Color(p) /\ ~C24_Texture(p)
    /\ \E p \in Grid \ Val(fx_out).locals.combined_mask : C24_Luminance(p) /\ C24_Fired(p) = 1
C24_WitnessColorTexture ==
    /\ Extracted
    /\ \E p \in Val(fx_out).locals.combined_mask : C24_Color(p) /\ ~C24_Luminance(p)
    /\ \E p \in Grid \ Val(fx_out).locals.combined_mask : C24_Texture(p) /\ C24_Fired(p) = 1

\* C26: after clear_database succeeded, every signature add_embedding adds
\* in the same process is in the cleared store: in a process_dataset run
\* started with --clear_db, every image that loaded, was extracted and met
\* no fault of the store is stored.
C26_Stored(file) ==
    \E i \in 1..Len(collection) : collection[i].metadata.path = file.path
C26_AddsAfterClearAreStored ==
    (last_run = "process" /\ handle_stale) =>
        \A i \in 1..Len(log) :
            (log[i].file.readable /\ ~log[i].file.raises /\ ~log[i].fault)
                => C26_Stored(log[i].file)

\* a finished run with --clear_db: an image was processed with no fault of
\* the store, it was counted as processed, and the store is empty
C26_NothingStoredAfterClear ==
    /\ last_run = "process"
    /\ pc = "idle"
    /\ handle_stale
    /\ \E i \in 1..Len(log) :
          log[i].file.readable /\ ~log[i].file.raises /\ ~log[i].fault
    /\ dataset_stats.processed >= 1
    /\ collection = <<>>

\* without --clear_db the same image is stored
C26_StoredWithoutClear ==
    /\ last_run = "process"
    /\ pc = "idle"
    /\ ~handle_stale
    /\ \E i \in 1..Len(log) :
          /\ log[i].file.readable /\ ~log[i].file.raises /\ ~log[i].fault
          /\ C26_Stored(log[i].file)

\* the classification of the query image of this run, from the store as it
\* was when the run started
C27_Classification ==
    analyze_query_results(
        query_embedding(log[1].file.emb,
                        [path |-> log[1].file.path, type |-> "leaf_disease",
                         category |-> "query"],
                        store_answer(store_before, log[1].file.emb, log[1].store_ok)))
C27_AllStepsSucceed ==
    /\ log[1].file.readable
    /\ ~log[1].file.raises
    /\ log[1].store_ok
    /\ \E result \in {C27_Classification} : ~IsRaised(result) /\ result # None

\* C27: process_query_image returns the classification whenever extraction,
\* the store query and the classification all succeed, and an error result
\* only when one of them fails.
C27_QueryReturnsClassification ==
    (last_run = "query" /\ Returned(query_ret)) =>
        IF C27_AllStepsSucceed
        THEN /\ "error" \notin DOMAIN Val(query_ret)
             /\ Val(query_ret) = C27_Classification
        ELSE "error" \in DOMAIN Val(query_ret)

\* every step succeeded and the caller got the error of the call that
\* follows the classification
C27_ClassifiedThenError ==
    /\ last_run = "query"
    /\ Returned(query_ret)
    /\ C27_AllStepsSucceed
    /\ Val(query_ret) =
          [error |-> "process_image() got an unexpected keyword argument 'metadata'"]
    /\ collection = store_before

\* an image of this process_dataset run that loaded, was extracted and met
\* no fault of the store
C28_Ingested(entry) ==
    entry.file.readable /\ ~entry.file.raises /\ entry.store_ok

\* C28: two images ingested from different paths are stored under
\* different ids and both are in the store, also when their file names are
\* equal.
C28_DistinctIds ==
    last_run = "process" =>
        \A i, j \in 1..Len(log) :
            (/\ C28_Ingested(log[i])
             /\ C28_Ingested(log[j])
             /\ log[i].file.path # log[j].file.path)
            => \E a, b \in 1..Len(collection) :
                   /\ collection[a].metadata.path = log[i].file.path
                   /\ collection[b].metadata.path = log[j].file.path
                   /\ collection[a].id # collection[b].id

\* leaf_healthy/h1.jpg and leaf_rust/h1.jpg were both ingested; the store
\* holds one signature with id h1.jpg, the first one's
C28_SameNameDropped ==
    /\ last_run = "process"
    /\ pc = "idle"
    /\ \A i \in 1..Len(log) : C28_Ingested(log[i])
    /\ \E i, j \in 1..Len(log) :
          /\ log[i].file.path = <<"dataset", "leaf_healthy", "h1.jpg">>
          /\ log[j].file.path = <<"dataset", "leaf_rust", "h1.jpg">>
    /\ Cardinality({a \in 1..Len(collection) : collection[a].id = "h1.jpg"}) = 1
    /\ \A a \in 1..Len(collection) :
          collection[a].metadata.path # <<"dataset", "leaf_rust", "h1.jpg">>
    /\ dataset_stats.processed = 5

\* C29: every signature process_dataset stored from
\* <dataset>/<category>/<file> carries the name of the category directory
\* as its category.
C29_CategoryIsDirectory ==
    last_run = "process" =>
        \A a \in 1..Len(collection) :
            /\ "category" \in DOMAIN collection[a].metadata
            /\ collection[a].metadata.category
                   = collection[a].metadata.path[Len(collection[a].metadata.path) - 1]

\* extra/Healthy_leaf/h4.jpg is stored and its metadata has no category
C29_NoCategoryStored ==
    /\ last_run = "process"
    /\ pc = "idle"
    /\ \E a \in 1..Len(collection) :
          /\ collection[a].metadata.path = <<"extra", "Healthy_leaf", "h4.jpg">>
          /\ "category" \notin DOMAIN collection[a].metadata

\* dataset/leaf_rust/r1.jpg is stored with the category leaf_rust
C29_CategoryStored ==
    /\ last_run = "process"
    /\ \E a \in 1..Len(collection) :
          /\ collection[a].metadata.path = <<"dataset", "leaf_rust", "r1.jpg">>
          /\ "category" \in DOMAIN collection[a].metadata
          /\ collection[a].metadata.category = "leaf_rust"

----------------------------------------------------------------------------
(* calculate_performance_metrics and analyze_revocation_patterns           *)

\* the normalisation of a label inside calculate_performance_metrics
normalize_label(category) ==
    IF ContainsHealthy(category) THEN "leaf_healthy" ELSE "leaf_with_disease"

\* accuracy_score(y_true, y_pred) as <<number of equal pairs, number of pairs>>
accuracy_score(y_true, y_pred) ==
    << Cardinality({k \in 1..Len(y_true) : y_true[k] = y_pred[k]}), Len(y_true) >>

\* y_true and y_pred: the normalised labels of the records
y_true_of(results) ==
    [k \in 1..Len(results) |-> normalize_label(results[k].true_category)]
y_pred_of(results) ==
    [k \in 1..Len(results) |-> normalize_label(results[k].predicted_category)]

\* [r["true_category"] for r in ...], [r["predicted_category"] for r in ...]
true_categories(results) == [k \in 1..Len(results) |-> results[k].true_category]
predicted_categories(results) ==
    [k \in 1..Len(results) |-> results[k].predicted_category]

high_conf(r) == r.confidence >= 800
medium_conf(r) == 600 <= r.confidence /\ r.confidence < 800
low_conf(r) == r.confidence < 600

high_conf_results(results) == SelectSeq(results, high_conf)

\* the accuracies and counts calculate_performance_metrics returns: the
\* overall accuracy compares the normalised labels, the high-confidence
\* accuracy compares the labels as they are in the records
calculate_performance_metrics(results) ==
    IF Len(results) = 0 THEN <<>>
    ELSE [overall_accuracy |-> accuracy_score(y_true_of(results), y_pred_of(results)),
          confidence_analysis |->
              [high_confidence |->
                   [count |-> Len(high_conf_results(results)),
                    accuracy |->
                        IF Len(high_conf_results(results)) # 0
                        THEN accuracy_score(
                                 true_categories(high_conf_results(results)),
                                 predicted_categories(high_conf_results(results)))
                        ELSE <<0, 1>>],
               medium_confidence |-> [count |-> Len(SelectSeq(results, medium_conf))],
               low_confidence |-> [count |-> Len(SelectSeq(results, low_conf))]]]

\* the groups of analyze_revocation_patterns, keyed by revocation_risk
risk_groups(results) == {results[k].revocation_risk : k \in 1..Len(results)}

in_group(results, risk) ==
    SelectSeq(results, LAMBDA r : r.revocation_risk = risk)

\* sum(1 for r in results if r["true_category"] == r["predicted_category"])
correct_predictions(results) ==
    Cardinality({k \in 1..Len(results) :
                    results[k].true_category = results[k].predicted_category})

analyze_revocation_patterns(results) ==
    [risk \in risk_groups(results) |->
        [count |-> Len(in_group(results, risk)),
         correct_predictions |-> correct_predictions(in_group(results, risk)),
         incorrect_predictions |->
             Len(in_group(results, risk)) - correct_predictions(in_group(results, risk))]]

RECURSIVE sum_correct(_, _)
sum_correct(analysis_by_risk, levels) ==
    IF levels = {} THEN 0
    ELSE LET level == CHOOSE l \in levels : TRUE
         IN  analysis_by_risk[level].correct_predictions
                 + sum_correct(analysis_by_risk, levels \ {level})

\* the records of a finished evaluation run, as handed to both functions
C30_Evaluated == last_run = "evaluate" /\ pc = "idle" /\ Len(test_results) >= 1

\* C30: for the records of an evaluation run, the number of records
\* analyze_revocation_patterns counts correct over all risk-level groups
\* equals the number calculate_performance_metrics counts correct overall,
\* and the high-confidence accuracy counts a record correct exactly when
\* the overall accuracy does.
C30_StratifiedAgreesWithOverall ==
    C30_Evaluated =>
        /\ sum_correct(analyze_revocation_patterns(test_results),
                       risk_groups(test_results))
               = calculate_performance_metrics(test_results).overall_accuracy[1]
        /\ calculate_performance_metrics(test_results)
               .confidence_analysis.high_confidence.accuracy[1]
               = accuracy_score(y_true_of(high_conf_results(test_results)),
                                y_pred_of(high_conf_results(test_results)))[1]

\* a leaf_rust test image predicted leaf_with_disease: correct overall,
\* incorrect in its risk-level group
C30_CorrectOverallOnly ==
    /\ C30_Evaluated
    /\ \E k \in 1..Len(test_results) :
          /\ test_results[k].true_category = "leaf_rust"
          /\ test_results[k].predicted_category = "leaf_with_disease"
          /\ analyze_revocation_patterns(test_results)
                 [test_results[k].revocation_risk].correct_predictions
                 < analyze_revocation_patterns(test_results)
                       [test_results[k].revocation_risk].count
    /\ calculate_performance_metrics(test_results).overall_accuracy[1]
           > sum_correct(analyze_revocation_patterns(test_results),
                         risk_groups(test_results))

\* the same mismatch inside the high-confidence bucket
C30_HighConfidenceMismatch ==
    /\ C30_Evaluated
    /\ calculate_performance_metrics(test_results)
           .confidence_analysis.high_confidence.accuracy[1]
           < accuracy_score(y_true_of(high_conf_results(test_results)),
                            y_pred_of(high_conf_results(test_results)))[1]

\* healthy records agree under both comparisons
C30_HealthyAgrees ==
    /\ C30_Evaluated
    /\ \E k \in 1..Len(test_results) :
          /\ test_results[k].true_category = "leaf_healthy"
          /\ test_results[k].predicted_category = "leaf_healthy"

====
